---- MODULE Spec2Model ----
\* Verification model of the chat-graph execution engine (ChatGraph in
\* src/src/graph.ts), its StateManager and the in-memory storage adapter.
EXTENDS Integers, Sequences, FiniteSets, TLC

\* ---------------------------------------------------------------------
\* Bounds
\* ---------------------------------------------------------------------
\* number of invoke calls issued in one behaviour
MaxInvokes == 3
\* number of administrative calls (saveSnapshot, restoreFromSnapshot,
\* deleteSnapshots, construction of the second instance) in one behaviour
MaxAdminOps == 1
\* number of phases (trace entries) one invoke may run through
MaxTrace == 12
\* calls made on the stand-alone managers and adapters
MaxOps == 5

\* ---------------------------------------------------------------------
\* Constants of the program
\* ---------------------------------------------------------------------
START == "__START__"
END == "__END__"

\* The two ChatGraph instances of a behaviour (A = 1, B = 2).
Inst == {1, 2}
FlowIds == {"f1", "f2"}

\* user_message values fed to invoke, with their lengths
Inputs == {"", "A", "Al"}
InputLen(s) == CASE s = "" -> 0 [] s = "A" -> 1 [] s = "Al" -> 2

\* new RegExp(regex).test(input) for the patterns used by the graphs below
RegExpTest(regex, input) ==
  CASE regex = "\\w+" -> InputLen(input) >= 1
    [] regex = ".{2,}" -> InputLen(input) >= 2
    [] OTHER -> FALSE

\* ---------------------------------------------------------------------
\* Schema / registry and mergeState
\* ---------------------------------------------------------------------
\* A schema is the set of field names of its shape; a registry maps a
\* field of the shape to its configuration.
NoConfig == [hasReducer |-> FALSE, reducer |-> "none", hasDefault |-> FALSE]
ConcatConfig == [hasReducer |-> TRUE, reducer |-> "concat", hasDefault |-> TRUE]

\* engine configurations for state merging:
\*   "noschema"  no schema at all
\*   "noreg"     a schema, but no registry handed to the engine
\*   "replace"   schema and registry, messages without reducer
\*   "concat"    schema and registry, messages with the array-concat reducer
MergeModes == {"noschema", "noreg", "replace", "concat"}
HasSchema(mode) == mode # "noschema"
HasRegistry(mode) == mode \in {"replace", "concat"}
Shape(mode) == {"messages", "name"}
GetConfig(mode, key) ==
  IF mode = "concat" /\ key = "messages" THEN ConcatConfig ELSE NoConfig

\* config.default() of the array fields; Undefined stands for a missing value
DefaultValue(config) == <<>>
Undefined == <<"undefined">>

\* a concat reducer putting the new values in front
ReducerFn_Prepend(reducer, prev, next) ==
  IF reducer = "concat" THEN next \o prev ELSE next

\* config.reducer.fn(prev, next)
ReducerFn(reducer, prev, next) ==
  IF reducer = "concat" THEN prev \o next ELSE next

\* mergeState keeping only the updated fields
MergeState_UpdatesOnly(mode, currentState, updates) == updates

\* mergeState handing the reducer a missing value although a default exists
MergeState_NoDefault(mode, currentState, updates) ==
  IF ~HasSchema(mode) \/ ~HasRegistry(mode)
  THEN [k \in DOMAIN currentState \cup DOMAIN updates |->
          IF k \in DOMAIN updates THEN updates[k] ELSE currentState[k]]
  ELSE [k \in DOMAIN currentState \cup DOMAIN updates |->
          IF k \notin DOMAIN updates THEN currentState[k]
          ELSE IF k \in Shape(mode) /\ GetConfig(mode, k).hasReducer
               THEN LET config == GetConfig(mode, k)
                        prevValue ==
                          IF k \in DOMAIN currentState THEN currentState[k]
                          ELSE Undefined
                    IN ReducerFn(config.reducer, prevValue, updates[k])
               ELSE updates[k]]

\* mergeState(schema, registry, currentState, updates); a state is a
\* function from the names of the fields it has to their values.
MergeState(mode, currentState, updates) ==
  IF ~HasSchema(mode) \/ ~HasRegistry(mode)
  THEN [k \in DOMAIN currentState \cup DOMAIN updates |->
          IF k \in DOMAIN updates THEN updates[k] ELSE currentState[k]]
  ELSE [k \in DOMAIN currentState \cup DOMAIN updates |->
          IF k \notin DOMAIN updates THEN currentState[k]
          ELSE IF k \in Shape(mode) /\ GetConfig(mode, k).hasReducer
               THEN LET config == GetConfig(mode, k)
                        prevValue ==
                          IF k \in DOMAIN currentState THEN currentState[k]
                          ELSE IF config.hasDefault THEN DefaultValue(config)
                          ELSE Undefined
                    IN ReducerFn(config.reducer, prevValue, updates[k])
               ELSE updates[k]]

EmptyState == [k \in {} |-> <<>>]

\* createInitialState(schema, registry, {}): registry defaults of the shape
CreateInitialState(mode) ==
  IF ~HasSchema(mode) THEN EmptyState
  ELSE IF HasRegistry(mode)
       THEN [k \in {f \in Shape(mode) : GetConfig(mode, f).hasDefault} |->
               DefaultValue(GetConfig(mode, k))]
       ELSE EmptyState

\* ---------------------------------------------------------------------
\* Graph declarations
\* ---------------------------------------------------------------------
NoValidate == [present |-> FALSE, rules |-> <<>>, targetField |-> "", fn |-> FALSE]
Rules(rules, targetField) ==
  [present |-> TRUE, rules |-> rules, targetField |-> targetField, fn |-> FALSE]
\* a validator given as a function
FnValidate == [present |-> TRUE, rules |-> <<>>, targetField |-> "", fn |-> TRUE]
R1 == [regex |-> "\\w+", errorMessage |-> "M1"]
R2 == [regex |-> ".{2,}", errorMessage |-> "M2"]

\* a node with an action and a static validator
VNode(id, msg, rules, targetField) ==
  [id |-> id, message |-> msg, validate |-> Rules(rules, targetField),
   noUserInput |-> FALSE]
\* a node with an action and a validator function
FNode(id, msg) ==
  [id |-> id, message |-> msg, validate |-> FnValidate, noUserInput |-> FALSE]
\* a noUserInput node
UNode(id, msg) ==
  [id |-> id, message |-> msg, validate |-> NoValidate, noUserInput |-> TRUE]
\* a node with neither validator nor noUserInput
PNode(id, msg) ==
  [id |-> id, message |-> msg, validate |-> NoValidate, noUserInput |-> FALSE]

\* edge targets: a literal id, a router function, a declarative router
ToId(id) == [kind |-> "id", id |-> id]
ToFn(field, value, thenId, elseId) ==
  [kind |-> "fn", field |-> field, value |-> value, thenId |-> thenId,
   elseId |-> elseId]
ToStatic(conditions, default) ==
  [kind |-> "static", conditions |-> conditions, default |-> default]
Cond(field, operator, value, goto) ==
  [field |-> field, operator |-> operator, value |-> value, goto |-> goto]
EdgeOf(from, to) == [from |-> from, to |-> to]

\* validator node, then a noUserInput node
G1 == [nodes |-> << VNode("n1", "Q1", <<R1, R2>>, "name"), UNode("n2", "T2") >>,
       edges |-> << EdgeOf(START, ToId("n1")), EdgeOf("n1", ToId("n2")),
                    EdgeOf("n2", ToId(END)) >>]
\* three chained noUserInput nodes
G2 == [nodes |-> << UNode("n1", "A"), UNode("n2", "B"), UNode("n3", "C") >>,
       edges |-> << EdgeOf(START, ToId("n1")), EdgeOf("n1", ToId("n2")),
                    EdgeOf("n2", ToId("n3")), EdgeOf("n3", ToId(END)) >>]
\* two validator nodes, the first routed by a function (loops until "Al")
G3 == [nodes |-> << VNode("n1", "Q1", <<R1>>, "name"),
                    VNode("n2", "Q2", <<>>, "") >>,
       edges |-> << EdgeOf(START, ToId("n1")),
                    EdgeOf("n1", ToFn("name", "Al", "n2", "n1")),
                    EdgeOf("n2", ToId(END)) >>]
\* validator node routed by a declarative router
G4 == [nodes |-> << VNode("n1", "Q1", <<R1>>, "name"), UNode("n2", "T2"),
                    UNode("n3", "T3") >>,
       edges |-> << EdgeOf(START, ToId("n1")),
                    EdgeOf("n1", ToStatic(<< Cond("name", "equals", "Al", "n3"),
                                             Cond("name", "not_equals", "", "n2") >>,
                                          END)),
                    EdgeOf("n2", ToId(END)), EdgeOf("n3", ToId(END)) >>]
\* a node without validator and without noUserInput, then a validator node
\* whose edge is registered twice
G5 == [nodes |-> << PNode("n1", "P1"), VNode("n2", "Q2", <<R1>>, "name") >>,
       edges |-> << EdgeOf(START, ToId("n1")), EdgeOf("n1", ToId("n2")),
                    EdgeOf("n2", ToId("n1")), EdgeOf("n2", ToId(END)) >>]
\* an edge to an id that has no node definition
G6 == [nodes |-> << VNode("n1", "Q1", <<>>, "name") >>,
       edges |-> << EdgeOf(START, ToId("n1")), EdgeOf("n1", ToId("nx")) >>]
\* a validator node and a noUserInput node on a cycle that never ends
G7 == [nodes |-> << VNode("n1", "Q1", <<R1>>, "name"), UNode("n2", "T2") >>,
       edges |-> << EdgeOf(START, ToId("n1")), EdgeOf("n1", ToId("n2")),
                    EdgeOf("n2", ToId("n1")) >>]
\* a cycle of noUserInput nodes only
G8 == [nodes |-> << UNode("n1", "A"), UNode("n2", "B") >>,
       edges |-> << EdgeOf(START, ToId("n1")), EdgeOf("n1", ToId("n2")),
                    EdgeOf("n2", ToId("n1")) >>]
\* a node validated by a function, then a noUserInput node
G9 == [nodes |-> << FNode("n1", "Q1"), UNode("n2", "T2") >>,
       edges |-> << EdgeOf(START, ToId("n1")), EdgeOf("n1", ToId("n2")),
                    EdgeOf("n2", ToId(END)) >>]
\* the START edge leads directly to END
G10 == [nodes |-> << UNode("n1", "A") >>,
        edges |-> << EdgeOf(START, ToId(END)), EdgeOf("n1", ToId(END)) >>]
\* no edge from START
G11 == [nodes |-> << UNode("n1", "A") >>,
        edges |-> << EdgeOf("n1", ToId(END)) >>]
GraphList == << G1, G2, G3, G4, G5, G6, G7, G8, G9, G10, G11 >>
\* the graphs the engines of the main specification are built from
EngineGraphs == 1..6

\* ---------------------------------------------------------------------
\* State
\* ---------------------------------------------------------------------
VARIABLES
  cfg,         \* constructor configuration shared by the instances:
               \* graph, merge mode, storage adapter, autoSave
  heap,        \* tracker objects; an instance and the snapshots of the
               \* memory adapter hold references (indices) into it
  storage,     \* MemoryStorageAdapter.storage: flow id -> snapshots
  constructed, \* instance -> has its constructor run
  flowOf,      \* instance -> config.id
  trk,         \* instance -> this.tracker (a reference into heap)
  gstate,      \* instance -> this.graphState
  vc,          \* instance -> StateManager.versionCounters
  pc,          \* instance -> position inside invoke
  event,       \* instance -> event of the running invoke
  trace,       \* instance -> phases run by the current / last invoke
  pre,         \* instance -> tracker and state the current / last invoke
               \* started from (after its load)
  atCall,      \* instance -> tracker and state when the current / last
               \* invoke was called
  atReturn,    \* instance -> tracker and state when the last invoke returned
  calls,       \* instance -> invoke calls issued on it
  untouched,   \* instance -> no invoke / restoreFromSnapshot since construction
  savedLog,    \* flow id -> every save so far: version, state and the
               \* value the tracker had when it was saved
  ninv,        \* invoke calls issued so far
  nadmin,      \* administrative calls issued so far
  pending,     \* instance -> the node and phase whose action / validate
               \* call it is awaiting
  adapters,    \* stand-alone MemoryStorageAdapter instances:
               \* adapter -> flow id -> snapshots
  counters,    \* stand-alone StateManagers: manager -> versionCounters
  oplog,       \* calls made on the stand-alone managers and adapters,
               \* with what they returned
  call,        \* arguments of the library function being applied
  result       \* what the library function returned for call

\* the engine instances
engineVars == << cfg, heap, storage, constructed, flowOf, trk, gstate, vc, pc,
                 event, trace, pre, atCall, atReturn, calls, untouched,
                 savedLog, ninv, nadmin, pending >>
\* stand-alone storage objects
storeVars == << adapters, counters, oplog >>
\* library function applications
libVars == << call, result >>

vars == << cfg, heap, storage, constructed, flowOf, trk, gstate, vc, pc,
           event, trace, pre, atCall, atReturn, calls, untouched, savedLog, ninv,
           nadmin, pending, adapters, counters, oplog, call, result >>

Graph == GraphList[cfg.g]
HasStateManager == cfg.storage # "none"

\* the tracker built by the constructor
InitialTracker(id) ==
  [currentNodeId |-> START, isActionTaken |-> FALSE,
   isResponseValid |-> FALSE, isDone |-> FALSE, graphId |-> id]

\* ---------------------------------------------------------------------
\* Node and edge compilation
\* ---------------------------------------------------------------------
\* processNodes: a noUserInput node loses its validator
ProcessNodes(nodes) ==
  [n \in DOMAIN nodes |->
     IF nodes[n].noUserInput
     THEN [nodes[n] EXCEPT !.validate = NoValidate]
     ELSE nodes[n]]

\* processEdges keeping the first entry registered for a source
ProcessEdges_FirstWins(edges) ==
  LET froms == {edges[k].from : k \in DOMAIN edges}
      first(f) == CHOOSE k \in DOMAIN edges :
                    /\ edges[k].from = f
                    /\ \A j \in DOMAIN edges : edges[j].from = f => k <= j
  IN [f \in froms |-> edges[first(f)].to]

\* processEdges: a Map filled in declaration order, a later entry for the
\* same source overwriting the earlier one
ProcessEdges(edges) ==
  LET froms == {edges[k].from : k \in DOMAIN edges}
      last(f) == CHOOSE k \in DOMAIN edges :
                   /\ edges[k].from = f
                   /\ \A j \in DOMAIN edges : edges[j].from = f => j <= k
  IN [f \in froms |-> edges[last(f)].to]

Nodes == ProcessNodes(Graph.nodes)
Edges == ProcessEdges(Graph.edges)

\* this.nodes.find(n => n.id === id): index of the first match, 0 if none
FindNode(id) ==
  LET hits == {n \in DOMAIN Nodes : Nodes[n].id = id}
  IN IF hits = {} THEN 0
     ELSE CHOOSE n \in hits : \A m \in hits : n <= m

\* createAction for a static {message}: one new message, nothing else
RunAction(node, state, ev) == [messages |-> << node.message >>]

\* the rule list deciding by its last failing rule
FirstFailing_Last(rules, input) ==
  LET bad == {r \in DOMAIN rules : ~RegExpTest(rules[r].regex, input)}
  IN IF bad = {} THEN 0 ELSE CHOOSE r \in bad : \A q \in bad : q <= r

\* createValidate for {rules, targetField}: index of the first rule whose
\* regex fails on the input, 0 if every rule passes
FirstFailing(rules, input) ==
  LET bad == {r \in DOMAIN rules : ~RegExpTest(rules[r].regex, input)}
  IN IF bad = {} THEN 0 ELSE CHOOSE r \in bad : \A q \in bad : r <= q

\* a validator function of the caller: it accepts inputs of two or more
\* characters and returns the input as the new name whether it accepts
\* or not
CustomValidate(state, ev) ==
  LET ok == RegExpTest(".{2,}", ev)
  IN [isValid |-> ok, hasError |-> ~ok, errorMessage |-> IF ok THEN "" ELSE "M2",
      hasState |-> TRUE, state |-> [k \in {"name"} |-> ev]]

\* node.validate(state, event)
RunValidate(node, state, ev) ==
  LET input == ev
      f == FirstFailing(node.validate.rules, input)
  IN IF node.validate.fn THEN CustomValidate(state, ev)
     ELSE IF f # 0
     THEN [isValid |-> FALSE, hasError |-> TRUE,
           errorMessage |-> node.validate.rules[f].errorMessage,
           hasState |-> FALSE, state |-> EmptyState]
     ELSE [isValid |-> TRUE, hasError |-> FALSE, errorMessage |-> "",
           hasState |-> TRUE,
           state |-> IF node.validate.targetField # ""
                     THEN [k \in {node.validate.targetField} |-> input]
                     ELSE EmptyState]

\* a router function (state) => state[field] === value ? thenId : elseId
RouterFn(to, state) ==
  IF to.field \in DOMAIN state /\ state[to.field] = to.value
  THEN to.thenId ELSE to.elseId

\* what an edge target that is neither a function nor a string leaves in
\* tracker.__currentNodeId: the router object itself, equal to no node id
RouterObject == "[object Object]"

\* ---------------------------------------------------------------------
\* StateManager over the MemoryStorageAdapter
\* ---------------------------------------------------------------------
\* version argument standing for "no version given"
NoVersion == 0

\* MemoryStorageAdapter.saveSnapshot: push onto the flow's array; the
\* snapshot keeps the reference to the tracker object it was given
AdapterSaveSnapshot(store, snapshot) ==
  [store EXCEPT ![snapshot.flowId] = Append(@, snapshot)]

\* MemoryStorageAdapter.loadSnapshot: position of the snapshot returned in
\* the flow's array, 0 for null
AdapterLoadSnapshot(store, flowId, version) ==
  LET flowSnapshots == store[flowId]
      hits == {k \in DOMAIN flowSnapshots : flowSnapshots[k].version = version}
  IN IF Len(flowSnapshots) = 0 THEN 0
     ELSE IF version # NoVersion
          THEN IF hits = {} THEN 0
               ELSE CHOOSE k \in hits : \A j \in hits : k <= j
          ELSE Len(flowSnapshots)

\* deleteFlow emptying every flow of the adapter
AdapterDeleteFlow_AllFlows(store, flowId) == [f \in DOMAIN store |-> <<>>]

\* MemoryStorageAdapter.deleteFlow
AdapterDeleteFlow(store, flowId) == [store EXCEPT ![flowId] = <<>>]

\* [...snaps].sort((a, b) => b.version - a.version): a stable sort by
\* version, highest first
RECURSIVE SortDesc(_)
SortDesc(snaps) ==
  IF Len(snaps) <= 1 THEN snaps
  ELSE LET top == CHOOSE k \in DOMAIN snaps :
                    /\ \A j \in DOMAIN snaps : snaps[j].version <= snaps[k].version
                    /\ \A j \in 1..(k - 1) : snaps[j].version < snaps[k].version
           rest == [j \in 1..(Len(snaps) - 1) |->
                      IF j < top THEN snaps[j] ELSE snaps[j + 1]]
       IN << snaps[top] >> \o SortDesc(rest)

\* pruneHistory keeping the first keepLast snapshots of the array
AdapterPruneHistory_KeepOldest(store, flowId, keepLast) ==
  LET flowSnapshots == store[flowId]
  IN IF Len(flowSnapshots) <= keepLast THEN store
     ELSE [store EXCEPT ![flowId] = SubSeq(flowSnapshots, 1, keepLast)]

\* MemoryStorageAdapter.pruneHistory
AdapterPruneHistory(store, flowId, keepLast) ==
  LET flowSnapshots == store[flowId]
  IN IF Len(flowSnapshots) <= keepLast THEN store
     ELSE [store EXCEPT ![flowId] = SubSeq(SortDesc(flowSnapshots), 1, keepLast)]

\* values of keepLast tried
KeepLasts == 0..2

\* MemoryStorageAdapter.clearAll
AdapterClearAll(store) == [f \in DOMAIN store |-> <<>>]

Max(a, b) == IF a >= b THEN a ELSE b

\* StateManager.save numbering after the highest version the adapter holds
ManagerSave_FromStore(e, flowId) ==
  LET stored == {e.storage[flowId][k].version : k \in DOMAIN e.storage[flowId]}
      currentVersion == IF stored = {} THEN 0
                        ELSE CHOOSE v \in stored : \A w \in stored : w <= v
      newVersion == currentVersion + 1
      snapshot == [flowId |-> flowId, version |-> newVersion,
                   state |-> e.gstate, tracker |-> e.trk]
  IN [e EXCEPT !.vc[flowId] = newVersion,
               !.storage = AdapterSaveSnapshot(@, snapshot)]

\* StateManager.save numbering from one counter shared by all flow ids
ManagerSave_SharedCounter(e, flowId) ==
  LET currentVersion ==
        CHOOSE v \in {e.vc[f] : f \in DOMAIN e.vc} :
          \A f \in DOMAIN e.vc : e.vc[f] <= v
      newVersion == currentVersion + 1
      snapshot == [flowId |-> flowId, version |-> newVersion,
                   state |-> e.gstate, tracker |-> e.trk]
  IN [e EXCEPT !.vc[flowId] = newVersion,
               !.storage = AdapterSaveSnapshot(@, snapshot)]

\* An engine view e: the shared heap and storage together with one
\* instance's tracker reference, state, version counters and trace.
\* StateManager.save
ManagerSave(e, flowId) ==
  LET currentVersion == e.vc[flowId]
      newVersion == currentVersion + 1
      snapshot == [flowId |-> flowId, version |-> newVersion,
                   state |-> e.gstate, tracker |-> e.trk]
  IN [e EXCEPT !.vc[flowId] = newVersion,
               !.storage = AdapterSaveSnapshot(@, snapshot)]

\* StateManager.load: the version counter is raised to a loaded version
ManagerLoad(e, flowId, version) ==
  LET k == AdapterLoadSnapshot(e.storage, flowId, version)
  IN IF k = 0 THEN e
     ELSE [e EXCEPT !.vc[flowId] = Max(@, e.storage[flowId][k].version)]

\* StateManager.delete
ManagerDelete(e, flowId) ==
  [e EXCEPT !.storage = AdapterDeleteFlow(@, flowId), !.vc[flowId] = 0]

\* ---------------------------------------------------------------------
\* ChatGraph
\* ---------------------------------------------------------------------
TraceEv(op, node, to, ok, ver) ==
  [op |-> op, node |-> node, to |-> to, ok |-> ok, ver |-> ver]

Logged(e, ev) == [e EXCEPT !.trace = Append(@, ev)]

\* the auto-save at the end of a completed phase
AutoSave(e, flowId) ==
  IF cfg.autoSave /\ HasStateManager
  THEN LET e1 == ManagerSave(e, flowId)
       IN Logged(e1, TraceEv("save", e.heap[e.trk].currentNodeId, "", TRUE,
                             e1.vc[flowId]))
  ELSE e

\* invoke adopting the tracker of the latest snapshot but keeping the
\* conversation state the instance already had
InvokeLoad_TrackerOnly(e, flowId) ==
  IF HasStateManager
  THEN LET k == AdapterLoadSnapshot(e.storage, flowId, NoVersion)
           e1 == ManagerLoad(e, flowId, NoVersion)
       IN IF k # 0
          THEN [e1 EXCEPT !.trk = e.storage[flowId][k].tracker]
          ELSE e1
  ELSE e

\* invoke restoring the conversation state of the latest snapshot but
\* keeping the tracker the instance already had
InvokeLoad_StateOnly(e, flowId) ==
  IF HasStateManager
  THEN LET k == AdapterLoadSnapshot(e.storage, flowId, NoVersion)
           e1 == ManagerLoad(e, flowId, NoVersion)
       IN IF k # 0
          THEN [e1 EXCEPT !.gstate = e.storage[flowId][k].state]
          ELSE e1
  ELSE e

\* ChatGraph.invoke, lines 225-231: load the latest snapshot, if any
InvokeLoad(e, flowId) ==
  IF HasStateManager
  THEN LET k == AdapterLoadSnapshot(e.storage, flowId, NoVersion)
           e1 == ManagerLoad(e, flowId, NoVersion)
       IN IF k # 0
          THEN [e1 EXCEPT !.gstate = e.storage[flowId][k].state,
                          !.trk = e.storage[flowId][k].tracker]
          ELSE e1
  ELSE e

\* ChatGraph.getNextNode
GetNextNode(e) ==
  LET cur == e.heap[e.trk].currentNodeId
      next == IF cur \in DOMAIN Edges
              THEN LET to == Edges[cur]
                   IN IF to.kind = "fn" THEN RouterFn(to, e.gstate)
                      ELSE IF to.kind = "id" THEN to.id
                      ELSE RouterObject
              ELSE END
  IN Logged([e EXCEPT !.heap[e.trk].currentNodeId = next],
            TraceEv("route", cur, next, TRUE, 0))

\* executeNodeAction marking the response valid for every node, not only
\* for noUserInput nodes
ExecuteNodeAction_AlwaysValid(e, node, ev, flowId) ==
  LET stateUpdate == RunAction(node, e.gstate, ev)
      e1 == [e EXCEPT !.heap[e.trk].isActionTaken = TRUE,
                      !.heap[e.trk].isResponseValid = TRUE,
                      !.gstate = MergeState(cfg.mode, @, stateUpdate)]
  IN AutoSave(Logged(e1, TraceEv("action", node.id, "", TRUE, 0)), flowId)

\* ChatGraph.executeNodeAction
ExecuteNodeAction(e, node, ev, flowId) ==
  LET stateUpdate == RunAction(node, e.gstate, ev)
      e1 == [e EXCEPT !.heap[e.trk].isActionTaken = TRUE,
                      !.gstate = MergeState(cfg.mode, @, stateUpdate)]
      e2 == IF node.noUserInput
            THEN [e1 EXCEPT !.heap[e.trk].isResponseValid = TRUE]
            ELSE e1
  IN AutoSave(Logged(e2, TraceEv("action", node.id, "", TRUE, 0)), flowId)

\* executeNodeValidation saving a snapshot after a failed validation too
ExecuteNodeValidation_SaveOnFailure(e, node, ev, flowId) ==
  IF ~node.validate.present
  THEN [e EXCEPT !.heap[e.trk].isResponseValid = TRUE]
  ELSE
    LET validationResult == RunValidate(node, e.gstate, ev)
        e1 == IF validationResult.hasState
              THEN [e EXCEPT !.gstate =
                      MergeState(cfg.mode, @, validationResult.state)]
              ELSE e
        e2 == Logged(e1, TraceEv("validate", node.id, "",
                                 validationResult.isValid, 0))
    IN IF ~validationResult.isValid
       THEN AutoSave(IF validationResult.hasError
                     THEN [e2 EXCEPT !.gstate = MergeState(cfg.mode, @,
                              [messages |-> << validationResult.errorMessage >>])]
                     ELSE e2, flowId)
       ELSE AutoSave([e2 EXCEPT !.heap[e.trk].isResponseValid = TRUE], flowId)

\* executeNodeValidation marking the response valid whatever the result
ExecuteNodeValidation_AcceptAll(e, node, ev, flowId) ==
  LET validationResult == RunValidate(node, e.gstate, ev)
      e1 == IF validationResult.hasState
            THEN [e EXCEPT !.gstate =
                    MergeState(cfg.mode, @, validationResult.state)]
            ELSE e
      e2 == Logged(e1, TraceEv("validate", node.id, "",
                               validationResult.isValid, 0))
  IN AutoSave([e2 EXCEPT !.heap[e.trk].isResponseValid = TRUE], flowId)

\* ChatGraph.executeNodeValidation
ExecuteNodeValidation(e, node, ev, flowId) ==
  IF ~node.validate.present
  THEN [e EXCEPT !.heap[e.trk].isResponseValid = TRUE]
  ELSE
    LET validationResult == RunValidate(node, e.gstate, ev)
        e1 == IF validationResult.hasState
              THEN [e EXCEPT !.gstate =
                      MergeState(cfg.mode, @, validationResult.state)]
              ELSE e
        e2 == Logged(e1, TraceEv("validate", node.id, "",
                                 validationResult.isValid, 0))
    IN IF ~validationResult.isValid
       THEN IF validationResult.hasError
            THEN [e2 EXCEPT !.gstate = MergeState(cfg.mode, @,
                     [messages |-> << validationResult.errorMessage >>])]
            ELSE e2
       ELSE AutoSave([e2 EXCEPT !.heap[e.trk].isResponseValid = TRUE], flowId)

\* ChatGraph.executeNode
ExecuteNode(e, ev, flowId) ==
  LET t == e.heap[e.trk]
      n == FindNode(t.currentNodeId)
  IN IF n = 0
     THEN Logged(e, TraceEv("notfound", t.currentNodeId, "", FALSE, 0))
     ELSE IF ~t.isActionTaken
          THEN ExecuteNodeAction(e, Nodes[n], ev, flowId)
          ELSE IF ~t.isResponseValid /\ Nodes[n].validate.present
               THEN ExecuteNodeValidation(e, Nodes[n], ev, flowId)
               ELSE IF ~Nodes[n].validate.present
                    THEN Logged([e EXCEPT !.heap[e.trk].isResponseValid = TRUE],
                                TraceEv("trivial", Nodes[n].id, "", TRUE, 0))
                    ELSE e

\* ChatGraph.subInvoke, lines 238-241: leave START, run one phase
SubInvokeHead(e, ev, flowId) ==
  LET e1 == IF e.heap[e.trk].currentNodeId = START THEN GetNextNode(e) ELSE e
  IN ExecuteNode(e1, ev, flowId)

\* subInvoke moving on as soon as the action is taken, validated or not
SubInvokeTail_ActionOnly(e) ==
  LET t == e.heap[e.trk]
  IN IF t.isActionTaken
     THEN LET e1 == GetNextNode(e)
              t1 == e1.heap[e1.trk]
          IN IF t1.currentNodeId = END
             THEN [e1 EXCEPT !.heap[e.trk].isDone = TRUE, !.cont = FALSE]
             ELSE [e1 EXCEPT
                     !.heap = Append(@, [t1 EXCEPT !.isActionTaken = FALSE,
                                                   !.isResponseValid = FALSE]),
                     !.trk = Len(e1.heap) + 1,
                     !.cont = TRUE]
     ELSE [e EXCEPT !.cont = FALSE]

\* subInvoke moving to the next node without calling itself again
SubInvokeTail_NoRecurse(e) ==
  LET t == e.heap[e.trk]
  IN IF t.isActionTaken /\ t.isResponseValid
     THEN LET e1 == GetNextNode(e)
              t1 == e1.heap[e1.trk]
          IN IF t1.currentNodeId = END
             THEN [e1 EXCEPT !.heap[e.trk].isDone = TRUE, !.cont = FALSE]
             ELSE [e1 EXCEPT
                     !.heap = Append(@, [t1 EXCEPT !.isActionTaken = FALSE,
                                                   !.isResponseValid = FALSE]),
                     !.trk = Len(e1.heap) + 1,
                     !.cont = FALSE]
     ELSE [e EXCEPT !.cont = FALSE]

\* subInvoke resetting only __isResponseValid for the next node
SubInvokeTail_KeepAction(e) ==
  LET t == e.heap[e.trk]
  IN IF t.isActionTaken /\ t.isResponseValid
     THEN LET e1 == GetNextNode(e)
              t1 == e1.heap[e1.trk]
          IN IF t1.currentNodeId = END
             THEN [e1 EXCEPT !.heap[e.trk].isDone = TRUE, !.cont = FALSE]
             ELSE [e1 EXCEPT
                     !.heap = Append(@, [t1 EXCEPT !.isResponseValid = FALSE]),
                     !.trk = Len(e1.heap) + 1,
                     !.cont = TRUE]
     ELSE [e EXCEPT !.cont = FALSE]

\* subInvoke resetting only __isActionTaken for the next node
SubInvokeTail_KeepValid(e) ==
  LET t == e.heap[e.trk]
  IN IF t.isActionTaken /\ t.isResponseValid
     THEN LET e1 == GetNextNode(e)
              t1 == e1.heap[e1.trk]
          IN IF t1.currentNodeId = END
             THEN [e1 EXCEPT !.heap[e.trk].isDone = TRUE, !.cont = FALSE]
             ELSE [e1 EXCEPT
                     !.heap = Append(@, [t1 EXCEPT !.isActionTaken = FALSE]),
                     !.trk = Len(e1.heap) + 1,
                     !.cont = TRUE]
     ELSE [e EXCEPT !.cont = FALSE]

\* ChatGraph.subInvoke, lines 244-260: once both phases are complete,
\* route; e.cont tells whether subInvoke calls itself again
SubInvokeTail(e) ==
  LET t == e.heap[e.trk]
  IN IF t.isActionTaken /\ t.isResponseValid
     THEN LET e1 == GetNextNode(e)
              t1 == e1.heap[e1.trk]
          IN IF t1.currentNodeId = END
             THEN [e1 EXCEPT !.heap[e.trk].isDone = TRUE, !.cont = FALSE]
             ELSE [e1 EXCEPT
                     !.heap = Append(@, [t1 EXCEPT !.isActionTaken = FALSE,
                                                   !.isResponseValid = FALSE]),
                     !.trk = Len(e1.heap) + 1,
                     !.cont = TRUE]
     ELSE [e EXCEPT !.cont = FALSE]

\* ---------------------------------------------------------------------
\* Actions
\* ---------------------------------------------------------------------
View(i) ==
  [heap |-> heap, storage |-> storage, trk |-> trk[i], gstate |-> gstate[i],
   vc |-> vc[i], trace |-> trace[i], cont |-> FALSE]

\* the entries a step added to the flow's snapshot array, as values
NewSaves(e, f) ==
  IF Len(e.storage[f]) > Len(storage[f])
  THEN [k \in 1..(Len(e.storage[f]) - Len(storage[f])) |->
          LET sn == e.storage[f][Len(storage[f]) + k]
          IN [version |-> sn.version, state |-> sn.state,
              tracker |-> e.heap[sn.tracker]]]
  ELSE <<>>

Commit(i, e) ==
  /\ heap' = e.heap
  /\ storage' = e.storage
  /\ trk' = [trk EXCEPT ![i] = e.trk]
  /\ gstate' = [gstate EXCEPT ![i] = e.gstate]
  /\ vc' = [vc EXCEPT ![i] = e.vc]
  /\ trace' = [trace EXCEPT ![i] = e.trace]
  /\ savedLog' = [f \in FlowIds |-> savedLog[f] \o NewSaves(e, f)]

AllIdle == \A j \in Inst : pc[j] = "idle"
\* a call on instance i may start: calls do not overlap unless the
\* configuration lets calls on different instances overlap
Quiet(i) == IF cfg.overlap THEN pc[i] = "idle" ELSE AllIdle

Configs ==
  {c \in [g : EngineGraphs, mode : MergeModes,
          storage : {"none", "memory"}, autoSave : BOOLEAN,
          overlap : {FALSE}, flow2 : {"f1"}] :
     c.storage = "none" => c.autoSave}

NoPre == [tracker |-> InitialTracker("f1"), gstate |-> EmptyState,
          latest |-> 0, nsnap |-> 0, nsaved |-> 0, counter |-> 0]
NoPending == [op |-> "none", node |-> 0]
NoCall == [tracker |-> InitialTracker("f1"), gstate |-> EmptyState]

Started ==
  /\ heap = << InitialTracker("f1") >>
  /\ storage = [f \in FlowIds |-> <<>>]
  /\ constructed = [i \in Inst |-> i = 1]
  /\ flowOf = [i \in Inst |-> "f1"]
  /\ trk = [i \in Inst |-> IF i = 1 THEN 1 ELSE 0]
  /\ gstate = [i \in Inst |-> IF i = 1 THEN CreateInitialState(cfg.mode)
                              ELSE EmptyState]
  /\ vc = [i \in Inst |-> [f \in FlowIds |-> 0]]
  /\ pc = [i \in Inst |-> "idle"]
  /\ event = [i \in Inst |-> ""]
  /\ trace = [i \in Inst |-> <<>>]
  /\ pre = [i \in Inst |-> NoPre]
  /\ atCall = [i \in Inst |-> NoCall]
  /\ atReturn = [i \in Inst |-> NoCall]
  /\ calls = [i \in Inst |-> 0]
  /\ untouched = [i \in Inst |-> TRUE]
  /\ savedLog = [f \in FlowIds |-> <<>>]
  /\ ninv = 0
  /\ nadmin = 0
  /\ pending = [i \in Inst |-> NoPending]
  /\ adapters = <<>>
  /\ counters = <<>>
  /\ oplog = <<>>
  /\ call = <<>>
  /\ result = <<>>

Init == cfg \in Configs /\ Started

\* new ChatGraph(config) for the second instance, sharing the adapter
Construct(i, f) ==
  /\ ~constructed[i]
  /\ f = cfg.flow2
  /\ Quiet(i)
  /\ HasStateManager
  /\ constructed' = [constructed EXCEPT ![i] = TRUE]
  /\ flowOf' = [flowOf EXCEPT ![i] = f]
  /\ heap' = Append(heap, InitialTracker(f))
  /\ trk' = [trk EXCEPT ![i] = Len(heap) + 1]
  /\ gstate' = [gstate EXCEPT ![i] = CreateInitialState(cfg.mode)]
  /\ UNCHANGED << storeVars, libVars, pending >>
  /\ UNCHANGED << cfg, storage, vc, pc, event, trace, pre, atCall, atReturn, calls,
                  untouched, savedLog, ninv, nadmin >>

\* invoke(event) is called; calls on the instances do not overlap
InvokeStart(i, ev) ==
  /\ constructed[i]
  /\ Quiet(i)
  /\ ninv < MaxInvokes
  /\ pc' = [pc EXCEPT ![i] = "load"]
  /\ event' = [event EXCEPT ![i] = ev]
  /\ trace' = [trace EXCEPT ![i] = <<>>]
  /\ untouched' = [untouched EXCEPT ![i] = FALSE]
  /\ ninv' = ninv + 1
  /\ calls' = [calls EXCEPT ![i] = @ + 1]
  /\ atCall' = [atCall EXCEPT ![i] =
                  [tracker |-> heap[trk[i]], gstate |-> gstate[i]]]
  /\ UNCHANGED << storeVars, libVars, pending >>
  /\ UNCHANGED << cfg, heap, storage, constructed, flowOf, trk, gstate, vc,
                  pre, atReturn, savedLog, nadmin >>

\* invoke, lines 225-231
Load(i) ==
  /\ pc[i] = "load"
  /\ LET e == InvokeLoad(View(i), flowOf[i])
     IN /\ Commit(i, e)
        /\ pre' = [pre EXCEPT ![i] =
                     [tracker |-> e.heap[e.trk], gstate |-> e.gstate,
                      latest |-> AdapterLoadSnapshot(storage, flowOf[i], NoVersion),
                      nsnap |-> Len(storage[flowOf[i]]),
                      nsaved |-> Len(savedLog[flowOf[i]]),
                      counter |-> e.vc[flowOf[i]]]]
  /\ pc' = [pc EXCEPT ![i] = "head"]
  /\ UNCHANGED << storeVars, libVars, pending >>
  /\ UNCHANGED << cfg, constructed, flowOf, event, atCall, atReturn, calls, untouched,
                  ninv, nadmin >>

\* the branch executeNode takes on the tracker of e: the phase whose
\* node.action / node.validate call it awaits, "none" if it awaits nothing
AwaitedPhase(e) ==
  LET t == e.heap[e.trk]
      n == FindNode(t.currentNodeId)
  IN IF n = 0 THEN NoPending
     ELSE IF ~t.isActionTaken THEN [op |-> "action", node |-> n]
     ELSE IF ~t.isResponseValid /\ Nodes[n].validate.present
          THEN [op |-> "validate", node |-> n]
          ELSE NoPending

\* subInvoke up to the await of node.action / node.validate inside
\* executeNode, when calls on other instances may run during the await;
\* a branch that awaits nothing is completed at once
BeginPhase(i) ==
  /\ pc[i] = "head"
  /\ cfg.overlap
  /\ Len(trace[i]) < MaxTrace
  /\ LET e == View(i)
         e1 == IF e.heap[e.trk].currentNodeId = START THEN GetNextNode(e) ELSE e
         ph == AwaitedPhase(e1)
     IN IF ph.op = "none"
        THEN /\ Commit(i, ExecuteNode(e1, event[i], flowOf[i]))
             /\ pc' = [pc EXCEPT ![i] = "tail"]
             /\ UNCHANGED pending
        ELSE /\ Commit(i, e1)
             /\ pc' = [pc EXCEPT ![i] = "await"]
             /\ pending' = [pending EXCEPT ![i] = ph]
  /\ UNCHANGED << storeVars, libVars >>
  /\ UNCHANGED << cfg, constructed, flowOf, event, pre, atCall, atReturn, calls,
                  untouched, ninv, nadmin >>

\* executeNodeAction / executeNodeValidation after the await, for the node
\* found before it
FinishPhase(i) ==
  /\ pc[i] = "await"
  /\ Commit(i, IF pending[i].op = "action"
               THEN ExecuteNodeAction(View(i), Nodes[pending[i].node],
                                      event[i], flowOf[i])
               ELSE ExecuteNodeValidation(View(i), Nodes[pending[i].node],
                                          event[i], flowOf[i]))
  /\ pc' = [pc EXCEPT ![i] = "tail"]
  /\ pending' = [pending EXCEPT ![i] = NoPending]
  /\ UNCHANGED << storeVars, libVars >>
  /\ UNCHANGED << cfg, constructed, flowOf, event, pre, atCall, atReturn, calls,
                  untouched, ninv, nadmin >>

\* subInvoke up to the end of executeNode, when calls do not overlap
ExecutePhase(i) ==
  /\ pc[i] = "head"
  /\ ~cfg.overlap
  /\ Len(trace[i]) < MaxTrace
  /\ Commit(i, SubInvokeHead(View(i), event[i], flowOf[i]))
  /\ pc' = [pc EXCEPT ![i] = "tail"]
  /\ UNCHANGED << storeVars, libVars, pending >>
  /\ UNCHANGED << cfg, constructed, flowOf, event, pre, atCall, atReturn, calls,
                  untouched, ninv, nadmin >>

\* subInvoke after executeNode: route and recurse, or return
Advance(i) ==
  /\ pc[i] = "tail"
  /\ LET e == SubInvokeTail(View(i))
     IN /\ Commit(i, e)
        /\ pc' = [pc EXCEPT ![i] = IF e.cont THEN "head" ELSE "idle"]
        /\ atReturn' = IF e.cont THEN atReturn
                       ELSE [atReturn EXCEPT ![i] =
                               [tracker |-> e.heap[e.trk], gstate |-> e.gstate]]
  /\ UNCHANGED << storeVars, libVars, pending >>
  /\ UNCHANGED << cfg, constructed, flowOf, event, pre, atCall, calls,
                  untouched, ninv, nadmin >>

\* ChatGraph.saveSnapshot
SaveSnapshot(i) ==
  /\ constructed[i]
  /\ Quiet(i)
  /\ nadmin < MaxAdminOps
  /\ nadmin' = nadmin + 1
  /\ IF HasStateManager
     THEN Commit(i, ManagerSave(View(i), flowOf[i]))
     ELSE UNCHANGED << heap, storage, trk, gstate, vc, trace, savedLog >>
  /\ UNCHANGED << storeVars, libVars, pending >>
  /\ UNCHANGED << cfg, constructed, flowOf, pc, event, pre, atCall, atReturn, calls,
                  untouched, ninv >>

\* ChatGraph.restoreFromSnapshot(version)
RestoreFromSnapshot(i, version) ==
  /\ constructed[i]
  /\ Quiet(i)
  /\ nadmin < MaxAdminOps
  /\ nadmin' = nadmin + 1
  /\ untouched' = [untouched EXCEPT ![i] = FALSE]
  /\ IF HasStateManager
     THEN LET k == AdapterLoadSnapshot(storage, flowOf[i], version)
              e == ManagerLoad(View(i), flowOf[i], version)
          IN Commit(i, IF k = 0 THEN e
                       ELSE [e EXCEPT !.gstate = storage[flowOf[i]][k].state,
                                      !.trk = storage[flowOf[i]][k].tracker])
     ELSE UNCHANGED << heap, storage, trk, gstate, vc, trace, savedLog >>
  /\ UNCHANGED << storeVars, libVars, pending >>
  /\ UNCHANGED << cfg, constructed, flowOf, pc, event, pre, atCall, atReturn, calls, ninv >>

\* ChatGraph.deleteSnapshots
DeleteSnapshots(i) ==
  /\ constructed[i]
  /\ Quiet(i)
  /\ nadmin < MaxAdminOps
  /\ nadmin' = nadmin + 1
  /\ IF HasStateManager
     THEN Commit(i, ManagerDelete(View(i), flowOf[i]))
     ELSE UNCHANGED << heap, storage, trk, gstate, vc, trace, savedLog >>
  /\ UNCHANGED << storeVars, libVars, pending >>
  /\ UNCHANGED << cfg, constructed, flowOf, pc, event, pre, atCall, atReturn, calls,
                  untouched, ninv >>

Next ==
  \/ \E i \in Inst, f \in FlowIds : Construct(i, f)
  \/ \E i \in Inst, ev \in Inputs : InvokeStart(i, ev)
  \/ \E i \in Inst : Load(i)
  \/ \E i \in Inst : ExecutePhase(i)
  \/ \E i \in Inst : Advance(i)
  \/ \E i \in Inst : SaveSnapshot(i)
  \/ \E i \in Inst : \E v \in 0..(Len(storage[flowOf[i]]) + 1) :
        RestoreFromSnapshot(i, v)
  \/ \E i \in Inst : DeleteSnapshots(i)

Spec == Init /\ [][Next]_vars

\* ---------------------------------------------------------------------
\* Calls on two engines that overlap
\* ---------------------------------------------------------------------
\* two engines on one memory adapter, with the same or with different
\* flow ids; a call on one may start while a call on the other is
\* suspended at an await
OverlapConfigs ==
  [g : {1}, mode : {"concat"}, storage : {"memory"}, autoSave : {TRUE},
   overlap : {TRUE}, flow2 : FlowIds]

InitOverlap == cfg \in OverlapConfigs /\ Started

\* pruneHistory(id, keepLast) on the adapter the engines share
PruneHistory(i, keepLast) ==
  /\ constructed[i]
  /\ Quiet(i)
  /\ HasStateManager
  /\ nadmin < MaxAdminOps
  /\ nadmin' = nadmin + 1
  /\ storage' = AdapterPruneHistory(storage, flowOf[i], keepLast)
  /\ UNCHANGED << storeVars, libVars >>
  /\ UNCHANGED << cfg, heap, constructed, flowOf, trk, gstate, vc, pc, event,
                  trace, pre, atCall, atReturn, calls, untouched, savedLog,
                  ninv, pending >>

NextOverlap ==
  \/ \E i \in Inst, f \in FlowIds : Construct(i, f)
  \/ \E i \in Inst, ev \in Inputs : InvokeStart(i, ev)
  \/ \E i \in Inst : Load(i)
  \/ \E i \in Inst : BeginPhase(i)
  \/ \E i \in Inst : FinishPhase(i)
  \/ \E i \in Inst : Advance(i)
  \/ \E i \in Inst : SaveSnapshot(i)
  \/ \E i \in Inst : \E v \in 0..(Len(storage[flowOf[i]]) + 1) :
        RestoreFromSnapshot(i, v)
  \/ \E i \in Inst : DeleteSnapshots(i)
  \/ \E i \in Inst, k \in KeepLasts : PruneHistory(i, k)

SpecOverlap == InitOverlap /\ [][NextOverlap]_vars

\* ---------------------------------------------------------------------
\* Invokes under the scheduling of the event loop
\* ---------------------------------------------------------------------
\* graphs with cycles, and a chain of noUserInput nodes
LiveConfigs ==
  [g : {2, 3, 7, 8}, mode : {"concat"}, storage : {"none", "memory"},
   autoSave : {TRUE}, overlap : {FALSE}, flow2 : {"f1"}]

InitLive == cfg \in LiveConfigs /\ Started

NextLive ==
  \/ \E i \in Inst, f \in FlowIds : Construct(i, f)
  \/ \E i \in Inst, ev \in Inputs : InvokeStart(i, ev)
  \/ \E i \in Inst : Load(i)
  \/ \E i \in Inst : ExecutePhase(i)
  \/ \E i \in Inst : Advance(i)

\* the steps of the invoke that is running (calls do not overlap here)
InvokeStep ==
  \E i \in Inst : Load(i) \/ ExecutePhase(i) \/ Advance(i)

\* the same steps seen on pc alone: the running invoke moves from its
\* position to another one; subInvoke does not start a phase beyond MaxTrace
Resume ==
  \E i \in Inst, p \in {"idle", "head", "tail"} :
    /\ pc[i] # "idle" /\ p # pc[i]
    /\ pc[i] = "head" => Len(trace[i]) < MaxTrace
    /\ pc' = [pc EXCEPT ![i] = p]

\* a step changes the position of a running invoke exactly when it is a
\* step of that invoke
ResumeIsInvokeStep == [][Resume <=> InvokeStep]_vars

\* every continuation of a running invoke is eventually run: the awaits of
\* invoke and subInvoke resolve, the caller's functions return
InvokeRuns == WF_pc(Resume)

SpecLive == InitLive /\ [][NextLive]_vars /\ InvokeRuns

\* ---------------------------------------------------------------------
\* Caller-supplied functions that throw
\* ---------------------------------------------------------------------
\* which of the caller's functions throws (or rejects) when it is called
\* in a step: none, the node's action, its validator, the router function
Faults == {"none", "action", "validate", "router"}

ThrowConfigs ==
  [g : {1, 3, 9}, mode : {"concat"}, storage : {"none", "memory"},
   autoSave : {TRUE}, overlap : {FALSE}, flow2 : {"f1"}]

InitThrow == cfg \in ThrowConfigs /\ Started

\* an exception caught inside the engine: invoke goes on to return normally
Throw_Swallowed(e, node, err) == Logged(e, TraceEv("throw", node, err, FALSE, 0))

\* the function called for node throws err: none of executeNode, subInvoke
\* and invoke has a try / catch, so the awaits rethrow and invoke rejects
\* with err
Throw(e, node, err) ==
  Logged(Logged(e, TraceEv("throw", node, err, FALSE, 0)),
         TraceEv("reject", node, err, FALSE, 0))

\* the edge target of node id is a router function
IsRouterFn(id) == id \in DOMAIN Edges /\ Edges[id].kind = "fn"

\* subInvoke up to the end of executeNode; the router of the START edge,
\* the action or the validator may throw
ExecutePhaseOrThrow(i, fault) ==
  /\ pc[i] = "head"
  /\ Len(trace[i]) < MaxTrace
  /\ LET e == View(i)
         atStart == e.heap[e.trk].currentNodeId = START
         e1 == IF atStart THEN GetNextNode(e) ELSE e
         ph == AwaitedPhase(e1)
     IN IF atStart /\ IsRouterFn(START) /\ fault = "router"
        THEN /\ Commit(i, Throw(e, START, fault))
             /\ pc' = [pc EXCEPT ![i] = "idle"]
        ELSE IF ph.op # "none" /\ ph.op = fault
             THEN /\ Commit(i, Throw(e1, Nodes[ph.node].id, fault))
                  /\ pc' = [pc EXCEPT ![i] = "idle"]
             ELSE /\ Commit(i, ExecuteNode(e1, event[i], flowOf[i]))
                  /\ pc' = [pc EXCEPT ![i] = "tail"]
  /\ UNCHANGED << storeVars, libVars, pending >>
  /\ UNCHANGED << cfg, constructed, flowOf, event, pre, atCall, atReturn, calls,
                  untouched, ninv, nadmin >>

\* subInvoke after executeNode; the router function may throw
AdvanceOrThrow(i, fault) ==
  /\ pc[i] = "tail"
  /\ LET t == heap[trk[i]]
     IN IF /\ t.isActionTaken /\ t.isResponseValid
           /\ IsRouterFn(t.currentNodeId) /\ fault = "router"
        THEN /\ Commit(i, Throw(View(i), t.currentNodeId, fault))
             /\ pc' = [pc EXCEPT ![i] = "idle"]
             /\ UNCHANGED << storeVars, libVars, pending >>
             /\ UNCHANGED << cfg, constructed, flowOf, event, pre, atCall,
                             atReturn, calls, untouched, ninv, nadmin >>
        ELSE Advance(i)

NextThrow ==
  \/ \E i \in Inst, ev \in Inputs : InvokeStart(i, ev)
  \/ \E i \in Inst : Load(i)
  \/ \E i \in Inst, fault \in Faults : ExecutePhaseOrThrow(i, fault)
  \/ \E i \in Inst, fault \in Faults : AdvanceOrThrow(i, fault)

SpecThrow == InitThrow /\ [][NextThrow]_vars

\* ---------------------------------------------------------------------
\* Restoring a version and going on
\* ---------------------------------------------------------------------
\* one engine on a memory adapter with autoSave; every call of
\* restoreFromSnapshot is recorded with what it returned
RestoreConfigs ==
  [g : {1, 2}, mode : {"concat"}, storage : {"memory"}, autoSave : {TRUE},
   overlap : {FALSE}, flow2 : {"f1"}]

InitRestore == cfg \in RestoreConfigs /\ Started

\* ChatGraph.restoreFromSnapshot(version), with a record of the call: the
\* value returned, the version asked for, the latest version stored, the
\* snapshot found and the invoke calls issued before it
RestoreFromSnapshotCall(i, version) ==
  /\ constructed[i]
  /\ Quiet(i)
  /\ nadmin < MaxAdminOps
  /\ nadmin' = nadmin + 1
  /\ untouched' = [untouched EXCEPT ![i] = FALSE]
  /\ LET k == AdapterLoadSnapshot(storage, flowOf[i], version)
         latest == AdapterLoadSnapshot(storage, flowOf[i], NoVersion)
         e == ManagerLoad(View(i), flowOf[i], version)
     IN /\ Commit(i, IF k = 0 THEN e
                     ELSE [e EXCEPT !.gstate = storage[flowOf[i]][k].state,
                                    !.trk = storage[flowOf[i]][k].tracker])
        /\ oplog' = Append(oplog,
                      [op |-> "restoreFromSnapshot", inst |-> i,
                       version |-> version, ret |-> k # 0, index |-> k,
                       latest |-> IF latest = 0 THEN 0
                                  ELSE storage[flowOf[i]][latest].version,
                       ninv |-> ninv])
  /\ UNCHANGED << adapters, counters, libVars, pending >>
  /\ UNCHANGED << cfg, constructed, flowOf, pc, event, pre, atCall, atReturn, calls, ninv >>

NextRestore ==
  \/ \E i \in Inst, ev \in Inputs : InvokeStart(i, ev)
  \/ \E i \in Inst : Load(i)
  \/ \E i \in Inst : ExecutePhase(i)
  \/ \E i \in Inst : Advance(i)
  \/ \E i \in Inst : \E v \in 0..(Len(storage[flowOf[i]]) + 1) :
        RestoreFromSnapshotCall(i, v)

SpecRestore == InitRestore /\ [][NextRestore]_vars

\* ---------------------------------------------------------------------
\* An engine with an adapter next to one without
\* ---------------------------------------------------------------------
\* The engine built without storageAdapter: this.stateManager is undefined,
\* so invoke loads nothing and no phase saves; nothing but the engine holds
\* its tracker. p is its tracker and conversation state.
PlainGetNextNode(p) ==
  LET cur == p.tracker.currentNodeId
      next == IF cur \in DOMAIN Edges
              THEN LET to == Edges[cur]
                   IN IF to.kind = "fn" THEN RouterFn(to, p.gstate)
                      ELSE IF to.kind = "id" THEN to.id
                      ELSE RouterObject
              ELSE END
  IN [p EXCEPT !.tracker.currentNodeId = next]

\* executeNodeAction without a state manager
PlainExecuteNodeAction(p, node, ev) ==
  LET stateUpdate == RunAction(node, p.gstate, ev)
      p1 == [p EXCEPT !.tracker.isActionTaken = TRUE,
                      !.gstate = MergeState(cfg.mode, @, stateUpdate)]
  IN IF node.noUserInput
     THEN [p1 EXCEPT !.tracker.isResponseValid = TRUE]
     ELSE p1

\* executeNodeValidation without a state manager
PlainExecuteNodeValidation(p, node, ev) ==
  IF ~node.validate.present
  THEN [p EXCEPT !.tracker.isResponseValid = TRUE]
  ELSE
    LET validationResult == RunValidate(node, p.gstate, ev)
        p1 == IF validationResult.hasState
              THEN [p EXCEPT !.gstate =
                      MergeState(cfg.mode, @, validationResult.state)]
              ELSE p
    IN IF ~validationResult.isValid
       THEN IF validationResult.hasError
            THEN [p1 EXCEPT !.gstate = MergeState(cfg.mode, @,
                     [messages |-> << validationResult.errorMessage >>])]
            ELSE p1
       ELSE [p1 EXCEPT !.tracker.isResponseValid = TRUE]

\* executeNode without a state manager
PlainExecuteNode(p, ev) ==
  LET t == p.tracker
      n == FindNode(t.currentNodeId)
  IN IF n = 0 THEN p
     ELSE IF ~t.isActionTaken
          THEN PlainExecuteNodeAction(p, Nodes[n], ev)
          ELSE IF ~t.isResponseValid /\ Nodes[n].validate.present
               THEN PlainExecuteNodeValidation(p, Nodes[n], ev)
               ELSE IF ~Nodes[n].validate.present
                    THEN [p EXCEPT !.tracker.isResponseValid = TRUE]
                    ELSE p

\* subInvoke without a state manager; k bounds the depth of the recursion
RECURSIVE PlainSubInvoke(_, _, _)
PlainSubInvoke(p, ev, k) ==
  LET p1 == IF p.tracker.currentNodeId = START THEN PlainGetNextNode(p) ELSE p
      p2 == PlainExecuteNode(p1, ev)
  IN IF p2.tracker.isActionTaken /\ p2.tracker.isResponseValid
     THEN LET p3 == PlainGetNextNode(p2)
          IN IF p3.tracker.currentNodeId = END
             THEN [p3 EXCEPT !.tracker.isDone = TRUE]
             ELSE IF k = 0 THEN p3
             ELSE PlainSubInvoke([p3 EXCEPT !.tracker.isActionTaken = FALSE,
                                            !.tracker.isResponseValid = FALSE],
                                 ev, k - 1)
     ELSE p2

\* invoke without a state manager
PlainInvoke(p, ev) == PlainSubInvoke(p, ev, MaxTrace)

\* graphs without a cycle of noUserInput nodes
TwinConfigs ==
  [g : {1, 2, 3, 5}, mode : {"concat"}, storage : {"memory"}, autoSave : {TRUE},
   overlap : {FALSE}, flow2 : {"f1"}]

InitTwin == cfg \in TwinConfigs /\ Started

\* the engine without adapter after the invokes made on it so far: result
\* lists what it held after each of them
Twin ==
  IF result = <<>>
  THEN [tracker |-> InitialTracker("f1"), gstate |-> CreateInitialState(cfg.mode)]
  ELSE result[Len(result)]

\* the event given to engine 1 is given to the engine without adapter too;
\* call lists the events it has been given
TwinInvoke ==
  /\ Len(call) + 1 = calls[1]
  /\ call' = Append(call, event[1])
  /\ result' = Append(result, PlainInvoke(Twin, event[1]))
  /\ UNCHANGED << engineVars, storeVars >>

NextTwin ==
  \/ \E ev \in Inputs : InvokeStart(1, ev)
  \/ Load(1)
  \/ ExecutePhase(1)
  \/ Advance(1)
  \/ TwinInvoke

SpecTwin == InitTwin /\ [][NextTwin]_vars

\* ---------------------------------------------------------------------
\* Graphs whose first step leads to the end marker
\* ---------------------------------------------------------------------
EndConfigs ==
  [g : {1, 10, 11}, mode : {"concat"}, storage : {"none", "memory"},
   autoSave : {TRUE}, overlap : {FALSE}, flow2 : {"f1"}]

InitEnd == cfg \in EndConfigs /\ Started

SpecEnd == InitEnd /\ [][Next]_vars

TypeOK == \A i \in Inst : pc[i] \in {"idle", "load", "head", "await", "tail"}

\* ---------------------------------------------------------------------
\* StateManagers and MemoryStorageAdapters used on their own
\* ---------------------------------------------------------------------
\* manager m is new StateManager(adapter m), adapter m a MemoryStorageAdapter
\* of its own
Mgrs == {1, 2}
StoreFlows == {"f1", "f2"}
LoadVersions == 0..2
NoSnapshot == [flowId |-> "", version |-> 0, state |-> 0, tracker |-> 0]

\* the manager and its adapter as an engine view
MgrView(m) ==
  [vc |-> counters[m], storage |-> adapters[m], gstate |-> oplog.n + 1,
   trk |-> 0]

Did(op, m, f, arg, ret) ==
  [op |-> op, mgr |-> m, flowId |-> f, arg |-> arg, ret |-> ret]

StoreCommit(m, e, did) ==
  /\ adapters' = [adapters EXCEPT ![m] = e.storage]
  /\ counters' = [counters EXCEPT ![m] = e.vc]
  /\ oplog' = [oplog EXCEPT
                 !.n = @ + 1,
                 !.last = did,
                 !.saves[m][did.flowId] =
                    IF did.op = "save" THEN Append(@, did.ret) ELSE @,
                 !.undeleted[m] =
                    IF did.op = "clear" THEN [f \in StoreFlows |-> FALSE]
                    ELSE IF did.op = "delete"
                         THEN [@ EXCEPT ![did.flowId] = FALSE]
                         ELSE @]
  /\ UNCHANGED << engineVars, libVars >>

\* no engine is in use
EngineOff ==
  /\ cfg = [g |-> 1, mode |-> "noschema", storage |-> "none", autoSave |-> TRUE,
            overlap |-> FALSE, flow2 |-> "f1"]
  /\ heap = << InitialTracker("f1") >>
  /\ storage = [f \in FlowIds |-> <<>>]
  /\ constructed = [i \in Inst |-> FALSE]
  /\ flowOf = [i \in Inst |-> "f1"]
  /\ trk = [i \in Inst |-> 0]
  /\ gstate = [i \in Inst |-> EmptyState]
  /\ vc = [i \in Inst |-> [f \in FlowIds |-> 0]]
  /\ pc = [i \in Inst |-> "idle"]
  /\ event = [i \in Inst |-> ""]
  /\ trace = [i \in Inst |-> <<>>]
  /\ pre = [i \in Inst |-> NoPre]
  /\ atCall = [i \in Inst |-> NoCall]
  /\ atReturn = [i \in Inst |-> NoCall]
  /\ calls = [i \in Inst |-> 0]
  /\ untouched = [i \in Inst |-> TRUE]
  /\ savedLog = [f \in FlowIds |-> <<>>]
  /\ ninv = 0
  /\ nadmin = 0
  /\ pending = [i \in Inst |-> NoPending]

InitStore ==
  /\ EngineOff
  /\ adapters = [m \in Mgrs |-> [f \in StoreFlows |-> <<>>]]
  /\ counters = [m \in Mgrs |-> [f \in StoreFlows |-> 0]]
  /\ oplog = [n |-> 0, last |-> Did("none", 0, "", 0, NoSnapshot),
              saves |-> [m \in Mgrs |-> [f \in StoreFlows |-> <<>>]],
              undeleted |-> [m \in Mgrs |-> [f \in StoreFlows |-> TRUE]]]
  /\ call = <<>>
  /\ result = <<>>

\* manager.save(f, state, tracker)
StoreSave(m, f) ==
  /\ oplog.n < MaxOps
  /\ LET e == ManagerSave(MgrView(m), f)
     IN StoreCommit(m, e, Did("save", m, f, 0, e.vc[f]))

\* manager.load(f, version)
StoreLoad(m, f, version) ==
  /\ oplog.n < MaxOps
  /\ LET k == AdapterLoadSnapshot(adapters[m], f, version)
         e == ManagerLoad(MgrView(m), f, version)
     IN StoreCommit(m, e, Did("load", m, f, version,
                              IF k = 0 THEN NoSnapshot ELSE adapters[m][f][k]))

\* manager.delete(f)
StoreDelete(m, f) ==
  /\ oplog.n < MaxOps
  /\ StoreCommit(m, ManagerDelete(MgrView(m), f), Did("delete", m, f, 0, 0))

\* manager.pruneHistory(f, keepLast)
StorePrune(m, f, keepLast) ==
  /\ oplog.n < MaxOps
  /\ StoreCommit(m, [MgrView(m) EXCEPT
                       !.storage = AdapterPruneHistory(@, f, keepLast)],
                 Did("prune", m, f, keepLast, 0))

\* manager.clear()
StoreClear(m) ==
  /\ oplog.n < MaxOps
  /\ StoreCommit(m, [MgrView(m) EXCEPT
                       !.storage = AdapterClearAll(@),
                       !.vc = [f \in StoreFlows |-> 0]],
                 Did("clear", m, "f1", 0, 0))

NextStore ==
  \/ \E m \in Mgrs, f \in StoreFlows : StoreSave(m, f)
  \/ \E m \in Mgrs, f \in StoreFlows, v \in LoadVersions : StoreLoad(m, f, v)
  \/ \E m \in Mgrs, f \in StoreFlows : StoreDelete(m, f)
  \/ \E m \in Mgrs, f \in StoreFlows, k \in KeepLasts : StorePrune(m, f, k)
  \/ \E m \in Mgrs : StoreClear(m)

SpecStore == InitStore /\ [][NextStore]_vars

\* ---------------------------------------------------------------------
\* mergeState and rule-list validators applied to given arguments
\* ---------------------------------------------------------------------
\* values tried for the fields: lists for messages, strings for the others;
\* a field may also be missing
Field(f, has, v) == IF has THEN f :> v ELSE EmptyState
MessagesFields ==
  {Field("messages", h, v) : h \in BOOLEAN, v \in {<<>>, <<"a">>, <<"b">>}}
NameFields == {Field("name", h, v) : h \in BOOLEAN, v \in {"x", "y"}}
ExtraFields == {Field("extra", h, v) : h \in BOOLEAN, v \in {"x", "y"}}
\* states and updates over the two fields of the shape and one outside it
StateValues ==
  {m @@ n @@ x : m \in MessagesFields, n \in NameFields, x \in ExtraFields}
UpdateValues == {u \in StateValues : DOMAIN u # {} /\ Cardinality(DOMAIN u) <= 2}
MergeCalls ==
  [fn : {"merge"}, mode : MergeModes, state : StateValues, updates : UpdateValues]

\* rule lists of up to two rules
RuleLists == {<<>>, <<R1>>, <<R2>>, <<R1, R2>>, <<R2, R1>>, <<R1, R1>>, <<R2, R2>>}
ValidateCalls ==
  [fn : {"validate"}, rules : RuleLists, targetField : {"", "name"}, input : Inputs]

\* a state value as interpolate sees it: what Boolean(value) and
\* String(value) give
JsString(text) == [type |-> "string", truthy |-> text # "", text |-> text]
JsNumber(n, text) == [type |-> "number", truthy |-> n # 0, text |-> text]
JsUndefined == [type |-> "undefined", truthy |-> FALSE, text |-> "undefined"]

\* a message template is a sequence of parts: literal text, or text
\* between {{ and }}; a text is a sequence of non-empty pieces
Lit(text) == [braces |-> FALSE, text |-> text]
Braces(text) == [braces |-> TRUE, text |-> text]
Pieces(text) == IF text = "" THEN <<>> ELSE << text >>
\* /\w+/ on the texts put between braces
IsWord(text) == text \in {"name", "count"}

\* the replacer (_, key) => state[key] || '', its result turned to a string
\* by String.prototype.replace
Replacer(key, state) ==
  LET value == IF key \in DOMAIN state THEN state[key] ELSE JsUndefined
  IN IF value.truthy THEN value.text ELSE ""

\* ChatGraph.interpolate: text.replace(/\{\{(\w+)\}\}/g, replacer)
RECURSIVE Interpolate(_, _)
Interpolate(text, state) ==
  IF text = <<>> THEN <<>>
  ELSE LET part == Head(text)
           first == IF ~part.braces THEN Pieces(part.text)
                    ELSE IF IsWord(part.text)
                         THEN Pieces(Replacer(part.text, state))
                         ELSE << "{{", part.text, "}}" >>
       IN first \o Interpolate(Tail(text), state)

\* the function createAction builds for a static {message}
CreateAction(message, state) == [messages |-> << Interpolate(message, state) >>]

NameValues == {JsString(""), JsString("Al")}
CountValues == {JsNumber(0, "0"), JsNumber(5, "5")}
InterpolateStates ==
  {Field("name", hn, n) @@ Field("count", hc, c) :
     hn \in BOOLEAN, n \in NameValues, hc \in BOOLEAN, c \in CountValues}
Templates ==
  { << Lit("Hello, "), Braces("name"), Lit("!") >>,
    << Lit("Count: "), Braces("count") >>,
    << Braces("name"), Braces("count"), Braces("name") >>,
    << Lit("Hi "), Braces("user name") >>,
    << Lit("Hi") >> }
InterpolateCalls ==
  [fn : {"interpolate"}, message : Templates, state : InterpolateStates]

NotApplied == [done |-> FALSE]

InitLib ==
  /\ EngineOff
  /\ adapters = <<>>
  /\ counters = <<>>
  /\ oplog = <<>>
  /\ call \in MergeCalls \cup ValidateCalls \cup InterpolateCalls
  /\ result = NotApplied

\* mergeState(schema, registry, state, updates)
ApplyMerge ==
  /\ ~result.done /\ call.fn = "merge"
  /\ result' = [done |-> TRUE,
                value |-> MergeState(call.mode, call.state, call.updates)]
  /\ UNCHANGED << engineVars, storeVars, call >>

\* the function createValidate builds for {rules, targetField}, applied to
\* an event carrying the input
ApplyValidate ==
  /\ ~result.done /\ call.fn = "validate"
  /\ result' = [done |-> TRUE,
                value |-> RunValidate(
                  [validate |-> Rules(call.rules, call.targetField)],
                  EmptyState, call.input)]
  /\ UNCHANGED << engineVars, storeVars, call >>

\* the action of a node declared with {message}, applied to a state
ApplyInterpolate ==
  /\ ~result.done /\ call.fn = "interpolate"
  /\ result' = [done |-> TRUE, value |-> CreateAction(call.message, call.state)]
  /\ UNCHANGED << engineVars, storeVars, call >>

NextLib == ApplyMerge \/ ApplyValidate \/ ApplyInterpolate

SpecLib == InitLib /\ [][NextLib]_vars

\* ---------------------------------------------------------------------
\* The legacy Flow engine
\* ---------------------------------------------------------------------
\* recursion depth of compile up to which the frames are told apart
MaxDepth == 4

\* flows built with addNode / addEdge: a node maps its id to a static
\* action message and a validator
FlowNode(id, msg, validate) == [id |-> id, message |-> msg, validate |-> validate]
\* a validator node whose edge leads to an id without node definition
F1 == [nodes |-> << FlowNode("n1", "Q1", Rules(<<R1>>, "name")) >>,
       edges |-> << EdgeOf(START, "n1"), EdgeOf("n1", "nx") >>]
\* no edge from START: startNodeId stays ''
F2 == [nodes |-> << FlowNode("n1", "P1", NoValidate) >>,
       edges |-> << EdgeOf("n1", END) >>]
\* a node without validator, then a validator node, then END
F3 == [nodes |-> << FlowNode("n1", "P1", NoValidate),
                    FlowNode("n2", "Q2", Rules(<<R1>>, "name")) >>,
       edges |-> << EdgeOf(START, "n1"), EdgeOf("n1", "n2"), EdgeOf("n2", END) >>]
FlowList == << F1, F2, F3 >>

\* Flow.addEdge over the declared edges: the last edge from START names
\* the start node ('' when there is none)
FlowStartNodeId(flow) ==
  LET ks == {k \in DOMAIN flow.edges : flow.edges[k].from = START}
  IN IF ks = {} THEN ""
     ELSE flow.edges[CHOOSE k \in ks : \A j \in ks : j <= k].to

\* Flow.addEdge: the other edges fill a Map, END being stored as 'END'
FlowEdges(flow) ==
  LET ks == {k \in DOMAIN flow.edges : flow.edges[k].from # START}
      last(f) == CHOOSE k \in ks :
                   /\ flow.edges[k].from = f
                   /\ \A j \in ks : flow.edges[j].from = f => j <= k
  IN [f \in {flow.edges[k].from : k \in ks} |->
        IF flow.edges[last(f)].to = END THEN "END" ELSE flow.edges[last(f)].to]

\* this.nodes.get(id): index of the node, 0 when the Map has no such key
FlowNodeAt(flow, id) ==
  LET hits == {n \in DOMAIN flow.nodes : flow.nodes[n].id = id}
  IN IF hits = {} THEN 0
     ELSE CHOOSE n \in hits : \A m \in hits : m <= n

\* the function Flow.createValidate builds from {rules, targetField}
FlowValidate(node, ev) ==
  LET f == FirstFailing(node.validate.rules, ev.payload)
  IN IF ev.type # "user_message"
     THEN [isValid |-> FALSE, hasError |-> FALSE, errorMessage |-> "",
           updates |-> EmptyState]
     ELSE IF f # 0
     THEN [isValid |-> FALSE, hasError |-> TRUE,
           errorMessage |-> node.validate.rules[f].errorMessage,
           updates |-> EmptyState]
     ELSE [isValid |-> TRUE, hasError |-> FALSE, errorMessage |-> "",
           updates |-> IF node.validate.targetField # ""
                       THEN [k \in {node.validate.targetField} |-> ev.payload]
                       ELSE EmptyState]

\* {...state.data, ...updates}
Spread(data, updates) ==
  [k \in DOMAIN data \cup DOMAIN updates |->
     IF k \in DOMAIN updates THEN updates[k] ELSE data[k]]

\* Flow.executeNode
FlowExecuteNode(flow, state, ev) ==
  LET currentNodeId == IF state.currentNodeId # "" THEN state.currentNodeId
                       ELSE FlowStartNodeId(flow)
      n == FlowNodeAt(flow, currentNodeId)
      node == flow.nodes[n]
  IN IF n = 0
     THEN [state |-> state, messages |-> <<>>, done |-> TRUE]
     ELSE IF ~state.isActionTaken
     THEN [state |-> [state EXCEPT !.currentNodeId = node.id,
                                   !.isActionTaken = TRUE,
                                   !.isResponseValid = ~node.validate.present,
                                   !.validationAttempted = FALSE],
           messages |-> << node.message >>, done |-> FALSE]
     ELSE IF ~state.isResponseValid /\ node.validate.present
     THEN LET validationResult == FlowValidate(node, ev)
          IN IF ~validationResult.isValid
             THEN [state |-> [state EXCEPT !.validationAttempted = TRUE],
                   messages |-> IF validationResult.hasError
                                THEN << validationResult.errorMessage >>
                                ELSE <<>>,
                   done |-> FALSE]
             ELSE [state |-> [state EXCEPT
                                !.data = Spread(@, validationResult.updates),
                                !.isResponseValid = TRUE],
                   messages |-> <<>>, done |-> FALSE]
     ELSE [state |-> state, messages |-> <<>>, done |-> FALSE]

\* Flow.getNextNode (no conditional edges are registered)
FlowGetNextNode(flow, nodeId) ==
  IF nodeId \in DOMAIN FlowEdges(flow) THEN FlowEdges(flow)[nodeId] ELSE "END"

\* one frame of Flow.compile: either it returns a StepResult, or it
\* returns what compile returns for another state
FlowCompileFrame(flow, state, ev) ==
  LET stepResult == FlowExecuteNode(flow, state, ev)
  IN IF ~stepResult.state.isActionTaken /\ stepResult.messages = <<>>
     THEN [returns |-> FALSE, state |-> stepResult.state]
     ELSE IF stepResult.state.isActionTaken /\ stepResult.state.isResponseValid
     THEN LET nextNodeId == FlowGetNextNode(flow, stepResult.state.currentNodeId)
          IN IF nextNodeId = "END"
             THEN [returns |-> TRUE, value |-> [stepResult EXCEPT !.done = TRUE]]
             ELSE [returns |-> FALSE,
                   state |-> [stepResult.state EXCEPT !.isActionTaken = FALSE,
                                                  !.isResponseValid = FALSE,
                                                  !.validationAttempted = FALSE,
                                                  !.currentNodeId = nextNodeId]]
     ELSE [returns |-> TRUE, value |-> stepResult]

\* the states and events compile is called with
FlowStates ==
  [currentNodeId : {"", "n1", "n2", "nx"}, isActionTaken : BOOLEAN,
   isResponseValid : BOOLEAN, validationAttempted : {FALSE},
   data : {EmptyState}]
FlowEvents == [type : {"user_message"}, payload : Inputs]
FlowCalls ==
  [fn : {"compile"}, flow : DOMAIN FlowList, given : FlowStates,
   state : FlowStates, ev : FlowEvents, depth : {0}]

\* flow.compile(state, event) is called: call.given is the state it was
\* called with, call.state the state of the frame that is running
InitFlow ==
  /\ EngineOff
  /\ adapters = <<>>
  /\ counters = <<>>
  /\ oplog = <<>>
  /\ call \in {c \in FlowCalls : c.state = c.given}
  /\ result = NotApplied

\* the running frame of compile runs executeNode and returns or calls
\* compile again; frames deeper than MaxDepth are not told apart
FlowCompile ==
  /\ ~result.done
  /\ LET frame == FlowCompileFrame(FlowList[call.flow], call.state, call.ev)
     IN IF frame.returns
        THEN /\ result' = [done |-> TRUE, value |-> frame.value]
             /\ call' = call
        ELSE /\ result' = result
             /\ call' = [call EXCEPT !.state = frame.state,
                           !.depth = IF @ < MaxDepth THEN @ + 1 ELSE @]
  /\ UNCHANGED << engineVars, storeVars >>

NextFlow == FlowCompile

\* a frame that is running is eventually run: the awaits of compile resolve
FlowRuns == WF_vars(FlowCompile)

SpecFlow == InitFlow /\ [][NextFlow]_vars /\ FlowRuns

\* ---------------------------------------------------------------------
\* MongoStorageAdapter
\* ---------------------------------------------------------------------
\* adapters over a collection of their own; adapters[m][f] holds the
\* documents of flow f in insertion order, counters[m] the fields client,
\* collection and isConnected of the adapter object (and whether connect
\* was ever called on it)
MongoIds == {1}
SnapshotVersions == 1..2
HistoryLimits == 0..1
NotConnected ==
  [client |-> FALSE, collection |-> FALSE, isConnected |-> FALSE,
   connectCalled |-> FALSE]
\* where connect() fails: nowhere, at the import of mongodb, at
\* client.connect(), at createIndex
ConnectFailures == {"none", "import", "connect", "index"}

Outcome(outcome, value) == [outcome |-> outcome, value |-> value]
NotConnectedError == Outcome("MongoStorageAdapter is not connected", 0)

\* ensureConnected: passes (TRUE) or throws (FALSE)
EnsureConnected(c) == ~(~c.isConnected \/ ~c.collection)

MongoCommit(m, docs, c, did) ==
  /\ adapters' = [adapters EXCEPT ![m] = docs]
  /\ counters' = [counters EXCEPT ![m] = c]
  /\ oplog' = [n |-> oplog.n + 1, last |-> did]
  /\ UNCHANGED << engineVars, libVars >>

InitMongo ==
  /\ EngineOff
  /\ adapters = [m \in MongoIds |-> [f \in StoreFlows |-> <<>>]]
  /\ counters = [m \in MongoIds |-> NotConnected]
  /\ oplog = [n |-> 0, last |-> Did("none", 0, "", 0, Outcome("ok", 0))]
  /\ call = <<>>
  /\ result = <<>>

\* adapter.connect()
MongoConnect(m, failure) ==
  /\ oplog.n < MaxOps
  /\ LET c == [counters[m] EXCEPT !.connectCalled = TRUE]
         c1 == IF c.isConnected THEN c
               ELSE CASE failure = "none" ->
                           [c EXCEPT !.client = TRUE, !.collection = TRUE,
                                     !.isConnected = TRUE]
                      [] failure = "import" -> c
                      [] failure = "connect" -> [c EXCEPT !.client = TRUE]
                      [] failure = "index" ->
                           [c EXCEPT !.client = TRUE, !.collection = TRUE]
         ret == IF c.isConnected \/ failure = "none" THEN Outcome("ok", 0)
                ELSE Outcome("Failed to connect to MongoDB", 0)
     IN MongoCommit(m, adapters[m], c1, Did("connect", m, "", 0, ret))

\* adapter.disconnect()
MongoDisconnect(m) ==
  /\ oplog.n < MaxOps
  /\ LET c == counters[m]
         c1 == IF c.client
               THEN [c EXCEPT !.client = FALSE, !.collection = FALSE,
                              !.isConnected = FALSE]
               ELSE c
     IN MongoCommit(m, adapters[m], c1,
                    Did("disconnect", m, "", 0, Outcome("ok", 0)))

\* adapter.saveSnapshot(snapshot): insertOne with _id flowId_vVersion
MongoSaveSnapshot(m, f, version) ==
  /\ oplog.n < MaxOps
  /\ LET docs == adapters[m][f]
         doc == [flowId |-> f, version |-> version, state |-> oplog.n + 1,
                 tracker |-> 0]
         dup == \E k \in DOMAIN docs : docs[k].version = version
     IN IF ~EnsureConnected(counters[m])
        THEN MongoCommit(m, adapters[m], counters[m],
                         Did("save", m, f, version, NotConnectedError))
        ELSE IF dup
             THEN MongoCommit(m, adapters[m], counters[m],
                              Did("save", m, f, version,
                                  Outcome("duplicate key", 0)))
             ELSE MongoCommit(m, [adapters[m] EXCEPT ![f] = Append(@, doc)],
                              counters[m],
                              Did("save", m, f, version, Outcome("ok", 0)))

\* the versions of docs, highest first
VersionsDesc(docs) ==
  LET sorted == SortDesc(docs)
  IN [k \in DOMAIN sorted |-> sorted[k].version]

\* adapter.loadSnapshot(flowId, version): findOne sorted by version,
\* highest first; the value is the version found, 0 for null
MongoLoadSnapshot(m, f, version) ==
  /\ oplog.n < MaxOps
  /\ LET docs == adapters[m][f]
         hits == IF version = NoVersion THEN docs
                 ELSE SelectSeq(docs, LAMBDA d : d.version = version)
         ret == IF ~EnsureConnected(counters[m]) THEN NotConnectedError
                ELSE IF hits = <<>> THEN Outcome("ok", 0)
                ELSE Outcome("ok", VersionsDesc(hits)[1])
     IN MongoCommit(m, adapters[m], counters[m],
                    Did("load", m, f, version, ret))

\* adapter.loadHistory(flowId, limit): limit || 0 means no limit
MongoLoadHistory(m, f, limit) ==
  /\ oplog.n < MaxOps
  /\ LET all == VersionsDesc(adapters[m][f])
         ret == IF ~EnsureConnected(counters[m]) THEN NotConnectedError
                ELSE IF limit = 0 \/ Len(all) <= limit THEN Outcome("ok", all)
                ELSE Outcome("ok", SubSeq(all, 1, limit))
     IN MongoCommit(m, adapters[m], counters[m],
                    Did("history", m, f, limit, ret))

\* adapter.deleteFlow(flowId)
MongoDeleteFlow(m, f) ==
  /\ oplog.n < MaxOps
  /\ IF ~EnsureConnected(counters[m])
     THEN MongoCommit(m, adapters[m], counters[m],
                      Did("delete", m, f, 0, NotConnectedError))
     ELSE MongoCommit(m, [adapters[m] EXCEPT ![f] = <<>>], counters[m],
                      Did("delete", m, f, 0, Outcome("ok", 0)))

\* adapter.pruneHistory(flowId, keepLast): deleteMany of the versions after
\* the first keepLast of the flow's versions, highest first
MongoPruneHistory(m, f, keepLast) ==
  /\ oplog.n < MaxOps
  /\ LET docs == adapters[m][f]
         snapshots == VersionsDesc(docs)
         versionsToDelete ==
           {snapshots[k] : k \in (keepLast + 1)..Len(snapshots)}
         kept == SelectSeq(docs, LAMBDA d : d.version \notin versionsToDelete)
     IN IF ~EnsureConnected(counters[m])
        THEN MongoCommit(m, adapters[m], counters[m],
                         Did("prune", m, f, keepLast, NotConnectedError))
        ELSE MongoCommit(m,
                         IF Len(snapshots) <= keepLast THEN adapters[m]
                         ELSE [adapters[m] EXCEPT ![f] = kept],
                         counters[m],
                         Did("prune", m, f, keepLast, Outcome("ok", 0)))

\* adapter.getSnapshotCount(flowId)
MongoGetSnapshotCount(m, f) ==
  /\ oplog.n < MaxOps
  /\ MongoCommit(m, adapters[m], counters[m],
                 Did("count", m, f, 0,
                     IF ~EnsureConnected(counters[m]) THEN NotConnectedError
                     ELSE Outcome("ok", Len(adapters[m][f]))))

\* adapter.flowExists(flowId)
MongoFlowExists(m, f) ==
  /\ oplog.n < MaxOps
  /\ MongoCommit(m, adapters[m], counters[m],
                 Did("exists", m, f, 0,
                     IF ~EnsureConnected(counters[m]) THEN NotConnectedError
                     ELSE Outcome("ok", Len(adapters[m][f]) > 0)))

NextMongo ==
  \/ \E m \in MongoIds, failure \in ConnectFailures : MongoConnect(m, failure)
  \/ \E m \in MongoIds : MongoDisconnect(m)
  \/ \E m \in MongoIds, f \in StoreFlows, v \in SnapshotVersions :
       MongoSaveSnapshot(m, f, v)
  \/ \E m \in MongoIds, f \in StoreFlows, v \in LoadVersions :
       MongoLoadSnapshot(m, f, v)
  \/ \E m \in MongoIds, f \in StoreFlows, l \in HistoryLimits :
       MongoLoadHistory(m, f, l)
  \/ \E m \in MongoIds, f \in StoreFlows : MongoDeleteFlow(m, f)
  \/ \E m \in MongoIds, f \in StoreFlows, k \in KeepLasts :
       MongoPruneHistory(m, f, k)
  \/ \E m \in MongoIds, f \in StoreFlows : MongoGetSnapshotCount(m, f)
  \/ \E m \in MongoIds, f \in StoreFlows : MongoFlowExists(m, f)

SpecMongo == InitMongo /\ [][NextMongo]_vars

\* ---------------------------------------------------------------------
\* A MemoryStorageAdapter next to a connected MongoStorageAdapter
\* ---------------------------------------------------------------------
\* adapters.memory is the storage Map of a MemoryStorageAdapter and
\* adapters.mongo the documents of the collection of a connected
\* MongoStorageAdapter, per flow id in insertion order; every call is made
\* on both, and oplog.last holds what each returned; counters is the set of
\* (flowId, version) pairs saved so far
SnapshotOf(f, version) ==
  [flowId |-> f, version |-> version, state |-> version, tracker |-> 0]

\* what loadSnapshot returns, as the version of the snapshot (0 for null)
MemoryLoadSnapshot(store, f, version) ==
  LET k == AdapterLoadSnapshot(store, f, version)
  IN IF k = 0 THEN 0 ELSE store[f][k].version

\* MemoryStorageAdapter.loadHistory, as the versions of the snapshots
MemoryLoadHistory(store, f, limit) ==
  LET sorted == VersionsDesc(store[f])
  IN IF limit > 0 /\ limit < Len(sorted) THEN SubSeq(sorted, 1, limit)
     ELSE sorted

\* findOne(query, {sort: {version: -1}}), as the version of the document
MongoFindOne(docs, version) ==
  LET hits == IF version = NoVersion THEN docs
              ELSE SelectSeq(docs, LAMBDA d : d.version = version)
  IN IF hits = <<>> THEN 0 ELSE VersionsDesc(hits)[1]

\* find({flowId}, {sort: {version: -1}, limit: limit || 0})
MongoFind(docs, limit) ==
  LET all == VersionsDesc(docs)
  IN IF limit = 0 \/ Len(all) <= limit THEN all ELSE SubSeq(all, 1, limit)

\* the documents left by MongoStorageAdapter.pruneHistory
MongoPruned(docs, keepLast) ==
  LET snapshots == VersionsDesc(docs)
      versionsToDelete == {snapshots[k] : k \in (keepLast + 1)..Len(snapshots)}
  IN IF Len(snapshots) <= keepLast THEN docs
     ELSE SelectSeq(docs, LAMBDA d : d.version \notin versionsToDelete)

InitBoth ==
  /\ EngineOff
  /\ adapters = [memory |-> [f \in StoreFlows |-> <<>>],
                 mongo |-> [f \in StoreFlows |-> <<>>]]
  /\ counters = {}
  /\ oplog = [n |-> 0, last |-> [op |-> "none", memory |-> 0, mongo |-> 0]]
  /\ call = <<>>
  /\ result = <<>>

\* the call op has been made on both adapters
BothCommit(memory, mongo, saved, op, fromMemory, fromMongo) ==
  /\ adapters' = [memory |-> memory, mongo |-> mongo]
  /\ counters' = saved
  /\ oplog' = [n |-> oplog.n + 1,
               last |-> [op |-> op, memory |-> fromMemory, mongo |-> fromMongo]]
  /\ UNCHANGED << engineVars, libVars >>

\* saveSnapshot of a (flowId, version) pair not saved before
BothSaveSnapshot(f, version) ==
  /\ oplog.n < MaxOps
  /\ << f, version >> \notin counters
  /\ BothCommit(AdapterSaveSnapshot(adapters.memory, SnapshotOf(f, version)),
                [adapters.mongo EXCEPT ![f] = Append(@, SnapshotOf(f, version))],
                counters \cup {<< f, version >>}, "save", 0, 0)

\* loadSnapshot(flowId, version)
BothLoadSnapshot(f, version) ==
  /\ oplog.n < MaxOps
  /\ BothCommit(adapters.memory, adapters.mongo, counters, "load",
                  MemoryLoadSnapshot(adapters.memory, f, version),
                  MongoFindOne(adapters.mongo[f], version))

\* loadHistory(flowId, limit)
BothLoadHistory(f, limit) ==
  /\ oplog.n < MaxOps
  /\ BothCommit(adapters.memory, adapters.mongo, counters, "history",
                  MemoryLoadHistory(adapters.memory, f, limit),
                  MongoFind(adapters.mongo[f], limit))

\* pruneHistory(flowId, keepLast)
BothPruneHistory(f, keepLast) ==
  /\ oplog.n < MaxOps
  /\ BothCommit(AdapterPruneHistory(adapters.memory, f, keepLast),
                  [adapters.mongo EXCEPT ![f] = MongoPruned(@, keepLast)],
                  counters, "prune", 0, 0)

\* deleteFlow(flowId)
BothDeleteFlow(f) ==
  /\ oplog.n < MaxOps
  /\ BothCommit(AdapterDeleteFlow(adapters.memory, f),
                  [adapters.mongo EXCEPT ![f] = <<>>], counters, "delete", 0, 0)

\* getSnapshotCount(flowId)
BothGetSnapshotCount(f) ==
  /\ oplog.n < MaxOps
  /\ BothCommit(adapters.memory, adapters.mongo, counters, "count",
                  Len(adapters.memory[f]), Len(adapters.mongo[f]))

\* flowExists(flowId)
BothFlowExists(f) ==
  /\ oplog.n < MaxOps
  /\ BothCommit(adapters.memory, adapters.mongo, counters, "exists",
                  Len(adapters.memory[f]) > 0, Len(adapters.mongo[f]) > 0)

NextBoth ==
  \/ \E f \in StoreFlows, v \in SnapshotVersions : BothSaveSnapshot(f, v)
  \/ \E f \in StoreFlows, v \in LoadVersions : BothLoadSnapshot(f, v)
  \/ \E f \in StoreFlows, l \in HistoryLimits : BothLoadHistory(f, l)
  \/ \E f \in StoreFlows, k \in KeepLasts : BothPruneHistory(f, k)
  \/ \E f \in StoreFlows : BothDeleteFlow(f)
  \/ \E f \in StoreFlows : BothGetSnapshotCount(f)
  \/ \E f \in StoreFlows : BothFlowExists(f)

SpecBoth == InitBoth /\ [][NextBoth]_vars

\* ---------------------------------------------------------------------
\* Vocabulary of the properties
\* ---------------------------------------------------------------------
\* the last invoke on instance i has returned
Returned(i) == calls[i] >= 1 /\ pc[i] = "idle"
\* positions of the phases of kind op in the current / last invoke
EventsOf(i, op) == {k \in DOMAIN trace[i] : trace[i][k].op = op}
\* the nodes whose actions the current / last invoke ran, in order
IsAction(ev) == ev.op = "action"
ActionOrder(i) ==
  LET acts == SelectSeq(trace[i], IsAction)
  IN [k \in DOMAIN acts |-> acts[k].node]
\* validation pending on the tracker value t
Awaiting(t) == t.isActionTaken /\ ~t.isResponseValid
\* the invoke is the first one on a new engine with nothing persisted
Fresh(i) ==
  /\ calls[i] = 1
  /\ pre[i].latest = 0
  /\ pre[i].tracker = InitialTracker(flowOf[i])
  /\ pre[i].gstate = CreateInitialState(cfg.mode)
\* the node the START edge led the fresh invoke to (0 if it has no definition)
FirstNode(i) == IF trace[i] = <<>> THEN 0 ELSE FindNode(trace[i][1].to)
\* the validator node the invoke found itself awaiting validation on, 0 if none
PendingNode(i) ==
  LET n == FindNode(pre[i].tracker.currentNodeId)
  IN IF Awaiting(pre[i].tracker) /\ n # 0 /\ Nodes[n].validate.present
     THEN n ELSE 0

ChainOfThree ==
  /\ Len(Nodes) = 3
  /\ \A n \in DOMAIN Nodes : Nodes[n].noUserInput
  /\ DOMAIN Edges = {START} \cup {Nodes[n].id : n \in DOMAIN Nodes}
  /\ \A f \in DOMAIN Edges : Edges[f].kind = "id"
  /\ Edges[START].id = Nodes[1].id
  /\ Edges[Nodes[1].id].id = Nodes[2].id
  /\ Edges[Nodes[2].id].id = Nodes[3].id
  /\ Edges[Nodes[3].id].id = END
ChainIds == << Nodes[1].id, Nodes[2].id, Nodes[3].id >>
ChainMessages == << Nodes[1].message, Nodes[2].message, Nodes[3].message >>

\* C4 as stated: on such a chain a single invoke on a fresh engine runs the
\* three actions in order, returns the three messages concatenated in that
\* order and leaves isDone true, in every engine configuration.
C4_Original ==
  \A i \in Inst :
    (Returned(i) /\ Fresh(i) /\ ChainOfThree)
    => /\ ActionOrder(i) = ChainIds
       /\ atReturn[i].gstate["messages"] = ChainMessages
       /\ atReturn[i].tracker.isDone

\* C4 amended: the three actions run in order and isDone is true in every
\* configuration; the returned messages are the three messages in order
\* when the messages field has the concatenating reducer (schema and
\* registry given), and only the last node's message otherwise.
C4_ChainRunsInOrder ==
  \A i \in Inst :
    (Returned(i) /\ Fresh(i) /\ ChainOfThree)
    => /\ ActionOrder(i) = ChainIds
       /\ atReturn[i].tracker.isDone
       /\ atReturn[i].gstate["messages"] =
            IF cfg.mode = "concat" THEN ChainMessages
            ELSE << Nodes[3].message >>

C4_Witness ==
  \E i \in Inst :
    /\ Returned(i) /\ Fresh(i) /\ ChainOfThree
    /\ cfg.mode = "concat"
    /\ ActionOrder(i) = ChainIds
    /\ atReturn[i].gstate["messages"] = ChainMessages
    /\ atReturn[i].tracker.isDone

\* ---------------------------------------------------------------------
\* C5
\* ---------------------------------------------------------------------
\* C5: a single invoke runs at most one validation phase.
C5_AtMostOneValidation ==
  \A i \in Inst : Cardinality(EventsOf(i, "validate")) <= 1

\* an invoke that validated and then auto-progressed through further nodes
C5_Witness ==
  \E i \in Inst :
    /\ Returned(i)
    /\ \E k \in EventsOf(i, "validate") :
         /\ trace[i][k].ok
         /\ \E a \in EventsOf(i, "action") : a > k
    /\ Cardinality(EventsOf(i, "validate")) = 1

\* ---------------------------------------------------------------------
\* C6
\* ---------------------------------------------------------------------
\* an invoke that ran a phase or wrote a snapshot
RanSomething(i) ==
  EventsOf(i, "action") \cup EventsOf(i, "validate") \cup EventsOf(i, "save") # {}

\* C6: once isDone is true, a further invoke is a no-op: it runs no action
\* and no validator, writes no snapshot, and leaves the conversation state
\* and the tracker as they were when it was called (isDone stays true).
C6_InvokeAfterDoneIsNoOp ==
  \A i \in Inst :
    (Returned(i) /\ atCall[i].tracker.isDone)
    => /\ ~RanSomething(i)
       /\ atReturn[i].gstate = atCall[i].gstate
       /\ atReturn[i].tracker = atCall[i].tracker

\* ---------------------------------------------------------------------
\* C7
\* ---------------------------------------------------------------------
\* the first invoke on instance i found, as the last snapshot written for
\* its flow, one taken after the action phase of a validator node
ResumesPending(i) ==
  /\ cfg.autoSave /\ HasStateManager
  /\ calls[i] = 1 /\ pc[i] # "load"
  /\ pre[i].nsnap > 0 /\ pre[i].nsaved > 0
  /\ LET t == savedLog[flowOf[i]][pre[i].nsaved].tracker
         n == FindNode(t.currentNodeId)
     IN Awaiting(t) /\ n # 0 /\ Nodes[n].validate.present

\* C7: with a storage adapter and autoSave, the first invoke on an instance
\* whose flow was last saved, by another instance, after the action phase
\* of a validator node starts from exactly that saved state and tracker,
\* and the first phase it runs is that node's validation, not its action.
C7_ResumesAtValidation ==
  \A i \in Inst :
    ResumesPending(i)
    => LET s == savedLog[flowOf[i]][pre[i].nsaved]
       IN /\ pre[i].gstate = s.state
          /\ pre[i].tracker = s.tracker
          /\ Returned(i) => trace[i] # <<>>
          /\ trace[i] # <<>> =>
               /\ trace[i][1].op = "validate"
               /\ trace[i][1].node = s.tracker.currentNodeId

C7_Witness ==
  /\ ResumesPending(2) /\ Returned(2)
  /\ calls[1] = 1
  /\ trace[1] # <<>> /\ trace[1][Len(trace[1])].op = "save"
  /\ trace[2][1].op = "validate" /\ trace[2][1].ok
  /\ EventsOf(2, "action") # {}

\* ---------------------------------------------------------------------
\* C8
\* ---------------------------------------------------------------------
\* C8: an engine constructed for a flow id that already has snapshots in
\* the storage adapter holds, immediately after construction, the latest
\* persisted state and tracker.
C8_ConstructorRestores ==
  [][\A i \in Inst, f \in FlowIds :
       (~constructed[i] /\ constructed'[i] /\ flowOf'[i] = f
          /\ storage[f] # <<>>)
       => LET k == AdapterLoadSnapshot(storage, f, NoVersion)
          IN /\ gstate'[i] = storage[f][k].state
             /\ heap'[trk'[i]] = heap[storage[f][k].tracker]]_vars

\* ---------------------------------------------------------------------
\* C9
\* ---------------------------------------------------------------------
\* the phases a step of instance i appended to its trace
NewEvents(i) == SubSeq(trace'[i], Len(trace[i]) + 1, Len(trace'[i]))
\* a phase that completed: an executed action or a passed validation
Completed(ev) == ev.op = "action" \/ (ev.op = "validate" /\ ev.ok)

\* C9: with a storage adapter and autoSave, a step that executes an action
\* phase or a passed validation phase appends exactly one snapshot, holding
\* the state after the phase, to the flow's snapshots; a step whose
\* validation fails, and a step that only routes, appends none.
C9_OneSnapshotPerCompletedPhase ==
  [][\A i \in Inst :
       (cfg.autoSave /\ HasStateManager /\ pc[i] \in {"head", "tail"})
       => LET f == flowOf[i]
              done == Len(SelectSeq(NewEvents(i), Completed))
          IN /\ done <= 1
             /\ Len(storage'[f]) = Len(storage[f]) + done
             /\ done = 1 => storage'[f][Len(storage'[f])].state = gstate'[i]]_vars

C9_Witness ==
  /\ cfg.autoSave /\ HasStateManager
  /\ Returned(1) /\ Returned(2)
  /\ Len(trace[1]) = 1 /\ trace[1][1].op = "validate" /\ ~trace[1][1].ok
  /\ \E k \in EventsOf(2, "validate") : trace[2][k].ok
  /\ EventsOf(2, "action") # {}
  /\ Cardinality(EventsOf(2, "save")) = 2
  /\ Len(storage[flowOf[2]]) = pre[2].nsnap + 2

\* ---------------------------------------------------------------------
\* C10
\* ---------------------------------------------------------------------
\* a condition {field, operator, value} against the state
EvalCondition(c, state) ==
  LET present == c.field \in DOMAIN state
  IN IF c.operator = "equals" THEN present /\ state[c.field] = c.value
     ELSE ~(present /\ state[c.field] = c.value)
\* goto of the first satisfied condition, the default if there is none
FirstMatch(to, state) ==
  LET hits == {k \in DOMAIN to.conditions : EvalCondition(to.conditions[k], state)}
  IN IF hits = {} THEN to.default
     ELSE to.conditions[CHOOSE k \in hits : \A j \in hits : k <= j].goto

\* C10: when a completed node's outgoing edge is a declarative router, the
\* routing step leaves in the tracker the goto of the first condition, in
\* list order, that the current state satisfies, and the default target if
\* none is satisfied.
C10_DeclarativeRouterFirstMatch ==
  [][\A i \in Inst :
       LET t == heap[trk[i]]
       IN (pc[i] = "tail" /\ t.isActionTaken /\ t.isResponseValid
             /\ t.currentNodeId \in DOMAIN Edges
             /\ Edges[t.currentNodeId].kind = "static")
          => heap'[trk[i]].currentNodeId =
               FirstMatch(Edges[t.currentNodeId], gstate[i])]_vars

\* ---------------------------------------------------------------------
\* C11
\* ---------------------------------------------------------------------
\* node n has neither a validator nor noUserInput
IsPlain(n) == n # 0 /\ ~Nodes[n].validate.present /\ ~Nodes[n].noUserInput

\* C11: the invoke that runs the action of a node without validator and
\* without noUserInput also resolves that node's outgoing edge before it
\* returns.
C11_PlainNodeCompletesAtOnce ==
  \A i \in Inst :
    Returned(i)
    => \A k \in EventsOf(i, "action") :
         IsPlain(FindNode(trace[i][k].node))
         => \E r \in EventsOf(i, "route") :
              r > k /\ trace[i][r].node = trace[i][k].node

\* ---------------------------------------------------------------------
\* C12
\* ---------------------------------------------------------------------
\* the versions stored for flow f in adapter m
VersionsOf(m, f) == {adapters[m][f][k].version : k \in DOMAIN adapters[m][f]}

\* C12: after any sequence of saves, prunes and deletes, loading a flow
\* without a version returns the stored snapshot of that flow with the
\* highest version, and null if the flow has no snapshots.
C12_LatestIsHighestVersion ==
  LET d == oplog.last
  IN (d.op = "load" /\ d.arg = NoVersion)
     => IF adapters[d.mgr][d.flowId] = <<>>
        THEN d.ret = NoSnapshot
        ELSE /\ \E k \in DOMAIN adapters[d.mgr][d.flowId] :
                  adapters[d.mgr][d.flowId][k] = d.ret
             /\ \A v \in VersionsOf(d.mgr, d.flowId) : v <= d.ret.version

\* ---------------------------------------------------------------------
\* C13
\* ---------------------------------------------------------------------
\* C13: every snapshot held by the memory adapter still has the state and
\* the tracker the engine had at the moment that version was saved.
C13_SnapshotsImmutable ==
  \A f \in FlowIds : \A k \in DOMAIN storage[f] :
    \E j \in DOMAIN savedLog[f] :
      /\ savedLog[f][j].version = storage[f][k].version
      /\ savedLog[f][j].state = storage[f][k].state
      /\ savedLog[f][j].tracker = heap[storage[f][k].tracker]

LoadedFrom(a, f, version) ==
  LET k == AdapterLoadSnapshot(adapters[a], f, version)
  IN IF k = 0 THEN NoSnapshot ELSE adapters[a][f][k]

\* C15: whatever has been saved, deleted, pruned or cleared through one
\* MemoryStorageAdapter instance, every instance returns the same snapshot
\* for the same loadSnapshot call.
C15_AdaptersShareData ==
  \A a \in Mgrs, b \in Mgrs, f \in StoreFlows, v \in LoadVersions :
    LoadedFrom(a, f, v) = LoadedFrom(b, f, v)

\* ---------------------------------------------------------------------
\* C16
\* ---------------------------------------------------------------------
\* a step of a call on instance j
StepOf(j) ==
  \/ \E ev \in Inputs : InvokeStart(j, ev)
  \/ Load(j)
  \/ ExecutePhase(j)
  \/ BeginPhase(j)
  \/ FinishPhase(j)
  \/ Advance(j)
  \/ SaveSnapshot(j)
  \/ \E v \in 0..(Len(storage[flowOf[j]]) + 1) : RestoreFromSnapshot(j, v)
  \/ DeleteSnapshots(j)
  \/ \E k \in KeepLasts : PruneHistory(j, k)

\* everything that belongs to the flow of instance i: its state, tracker,
\* version counter, position, and the flow's snapshots with their trackers
FlowData(i) ==
  [state |-> gstate[i], tracker |-> heap[trk[i]], pc |-> pc[i],
   counter |-> vc[i][flowOf[i]], trace |-> trace[i],
   snapshots |-> [k \in DOMAIN storage[flowOf[i]] |->
                    [version |-> storage[flowOf[i]][k].version,
                     state |-> storage[flowOf[i]][k].state,
                     tracker |-> heap[storage[flowOf[i]][k].tracker]]]]

\* C16: for two engines with different flow ids on one adapter, a step of
\* a call on one engine (invoke, save, restore, delete, prune), at whatever
\* point of the other engine's calls it is taken, leaves the other flow's
\* state, tracker, counter and snapshots as they were; each flow therefore
\* evolves as if it ran alone.
C16_FlowsIndependent ==
  [][\A i \in Inst, j \in Inst :
       (constructed[i] /\ constructed[j] /\ flowOf[i] # flowOf[j] /\ StepOf(j))
       => FlowData(i)' = FlowData(i)]_vars

C16_Witness ==
  /\ constructed[2] /\ flowOf[2] = "f2"
  /\ pc[1] = "tail" /\ pc[2] = "tail"
  /\ storage["f1"] # <<>> /\ storage["f2"] # <<>>
  /\ nadmin > 0

\* ---------------------------------------------------------------------
\* C17
\* ---------------------------------------------------------------------
\* position of the first event of kind op in the trace of instance i, 0 if none
FirstOf(i, op) ==
  IF EventsOf(i, op) = {} THEN 0
  ELSE CHOOSE k \in EventsOf(i, op) : \A j \in EventsOf(i, op) : k <= j

\* both instances work on one flow id and their current / last invokes
\* loaded the same snapshot, which left their version counters equal
LoadedTheSame ==
  /\ cfg.overlap /\ constructed[1] /\ constructed[2] /\ flowOf[1] = flowOf[2]
  /\ calls[1] >= 1 /\ calls[2] >= 1
  /\ pre[1].nsnap > 0
  /\ pre[1].nsnap = pre[2].nsnap /\ pre[1].latest = pre[2].latest
  /\ pre[1].counter = pre[2].counter

\* C17: two engines sharing a flow id and an adapter whose invokes loaded
\* the same snapshot number their saves from their own counters, not from
\* what the adapter holds: the first snapshots the two invokes write carry
\* the same version, one above the loaded one.
C17_RacingSavesCollide ==
  (LoadedTheSame /\ FirstOf(1, "save") # 0 /\ FirstOf(2, "save") # 0)
  => /\ trace[1][FirstOf(1, "save")].ver = pre[1].counter + 1
     /\ trace[2][FirstOf(2, "save")].ver = pre[2].counter + 1

\* the two invokes overlap (neither has returned), both ran the validation
\* of the same node on the snapshot both loaded, and the flow holds two
\* snapshots with one version
C17_Witness ==
  /\ LoadedTheSame
  /\ pc[1] = "tail" /\ pc[2] = "tail"
  /\ FirstOf(1, "validate") = 1 /\ FirstOf(2, "validate") = 1
  /\ FirstOf(1, "save") # 0 /\ FirstOf(2, "save") # 0
  /\ trace[1][1].node = trace[2][1].node
  /\ trace[1][1].ok /\ trace[2][1].ok
  /\ trace[1][FirstOf(1, "save")].ver = trace[2][FirstOf(2, "save")].ver
  /\ \E a, b \in DOMAIN storage[flowOf[1]] :
       a # b /\ storage[flowOf[1]][a].version = storage[flowOf[1]][b].version

\* ---------------------------------------------------------------------
\* C18
\* ---------------------------------------------------------------------
\* the field names that states and updates are drawn over
FieldNames == {"messages", "name", "extra"}

\* a reducer is registered for field f under the merge configuration
Reduced(mode, f) ==
  HasSchema(mode) /\ HasRegistry(mode) /\ f \in Shape(mode)
    /\ GetConfig(mode, f).hasReducer

\* C18: merging an update of a single field that has no registered reducer
\* (a field outside the schema included) yields the current state with that
\* field replaced by the new value and every other field as it was,
\* whatever is registered for other fields.
C18_NoReducerMeansReplace ==
  \A f \in FieldNames :
    (result.done /\ call.fn = "merge" /\ DOMAIN call.updates = {f}
       /\ ~Reduced(call.mode, f))
    => result.value = [k \in DOMAIN call.state \cup {f} |->
                         IF k = f THEN call.updates[f] ELSE call.state[k]]

C18_Witness ==
  /\ result.done /\ call.fn = "merge" /\ call.mode = "concat"
  /\ DOMAIN call.updates = {"extra"}
  /\ DOMAIN call.state = FieldNames
  /\ call.state["messages"] = <<"a">>
  /\ call.state["extra"] = "x" /\ call.updates["extra"] = "y"
  /\ result.value["extra"] = "y" /\ result.value["messages"] = <<"a">>

\* ---------------------------------------------------------------------
\* C19
\* ---------------------------------------------------------------------
\* C19: merging an update of a field with the registered concat reducer and
\* default [] calls the reducer with [] when the current state has no value
\* for the field, so the field becomes the update, and with the current
\* value when there is one, so the field becomes that value followed by
\* the update.
C19_ReducerStartsFromDefault ==
  \A f \in FieldNames :
    (result.done /\ call.fn = "merge" /\ f \in DOMAIN call.updates
       /\ Reduced(call.mode, f))
    => result.value[f] =
         IF f \in DOMAIN call.state THEN call.state[f] \o call.updates[f]
         ELSE <<>> \o call.updates[f]

C19_Witness ==
  /\ result.done /\ call.fn = "merge" /\ Reduced(call.mode, "messages")
  /\ "messages" \notin DOMAIN call.state
  /\ "name" \in DOMAIN call.state
  /\ "messages" \in DOMAIN call.updates /\ call.updates["messages"] = <<"a">>
  /\ result.value["messages"] = <<"a">>

\* ---------------------------------------------------------------------
\* C20
\* ---------------------------------------------------------------------
\* C20: a rule-list validator is invalid with the errorMessage of the first
\* rule, in declared order, whose regex does not match the raw input, and
\* valid only if every rule matches, capturing the raw input into
\* targetField when one is given and nothing otherwise.
C20_FirstFailingRuleDecides ==
  (result.done /\ call.fn = "validate")
  => LET fails(r) == ~RegExpTest(call.rules[r].regex, call.input)
         v == result.value
     IN IF \E r \in DOMAIN call.rules : fails(r)
        THEN /\ ~v.isValid /\ ~v.hasState
             /\ \E r \in DOMAIN call.rules :
                  /\ fails(r)
                  /\ \A q \in 1..(r - 1) : ~fails(q)
                  /\ v.errorMessage = call.rules[r].errorMessage
        ELSE /\ v.isValid
             /\ v.state = IF call.targetField = "" THEN EmptyState
                          ELSE call.targetField :> call.input

C20_Witness ==
  /\ result.done /\ call.fn = "validate"
  /\ call.rules = <<R2, R1>> /\ call.input = ""
  /\ ~result.value.isValid
  /\ result.value.errorMessage = R2.errorMessage

\* ---------------------------------------------------------------------
\* C21
\* ---------------------------------------------------------------------
\* the three phase states of a tracker value
ActionPending(t) == ~t.isActionTaken /\ ~t.isResponseValid
ValidationPending(t) == t.isActionTaken /\ ~t.isResponseValid
NodeComplete(t) == t.isActionTaken /\ t.isResponseValid
AtRest(i) == constructed[i] /\ pc[i] = "idle"

\* C21: whenever an engine is at rest (no invoke running on it), its
\* tracker is action pending, validation pending or node complete;
\* responseValid is never true while actionTaken is false.
C21_TrackerPhaseAtRest ==
  \A i \in Inst :
    AtRest(i)
    => LET t == heap[trk[i]]
       IN /\ ActionPending(t) \/ ValidationPending(t) \/ NodeComplete(t)
          /\ t.isResponseValid => t.isActionTaken

\* both engines at rest after invokes, one with validation pending and
\* the other with its node complete
C21_Witness ==
  /\ \A i \in Inst : AtRest(i) /\ calls[i] >= 1
  /\ ValidationPending(heap[trk[1]])
  /\ NodeComplete(heap[trk[2]])

\* ---------------------------------------------------------------------
\* C22
\* ---------------------------------------------------------------------
\* ids of the noUserInput nodes of the graph
AutoIds == {Nodes[n].id : n \in {m \in DOMAIN Nodes : Nodes[m].noUserInput}}
\* the ids routing can lead to from node id
Targets(id) ==
  IF id \in DOMAIN Edges
  THEN LET to == Edges[id]
       IN IF to.kind = "id" THEN {to.id}
          ELSE IF to.kind = "fn" THEN {to.thenId, to.elseId}
          ELSE {RouterObject}
  ELSE {END}
\* the noUserInput nodes reached from the set S through noUserInput nodes
\* only, in at most k further steps
RECURSIVE AutoReach(_, _)
AutoReach(S, k) ==
  IF k = 0 THEN S
  ELSE AutoReach(S \cup {t \in AutoIds : \E a \in S : t \in Targets(a)}, k - 1)
\* every cycle of the graph contains a node that is not a noUserInput node
EveryCycleWaits ==
  \A a \in AutoIds :
    a \notin AutoReach(Targets(a) \cap AutoIds, Cardinality(AutoIds))
\* the invoke on instance i has stopped at a node that waits for input, at
\* the end marker, or at an id without node definition
Stopped(i) ==
  /\ AtRest(i)
  /\ LET t == heap[trk[i]]
         n == FindNode(t.currentNodeId)
     IN \/ t.isDone /\ t.currentNodeId = END
        \/ n # 0 /\ ~Nodes[n].noUserInput /\ ~NodeComplete(t)
        \/ n = 0 /\ t.currentNodeId # END

\* C22: in a graph where every cycle contains a node that is not a
\* noUserInput node, every invoke that is called returns, stopped at a node
\* that waits for input or at the end marker.
C22_InvokeTerminates ==
  \A i \in Inst :
    (EveryCycleWaits /\ pc[i] # "idle") ~> Stopped(i)

\* an invoke that went round the cycle of G7 and returned: it validated
\* n1, ran the noUserInput node n2 and stopped after n1's action
C22_Witness ==
  \E i \in Inst :
    /\ cfg.g = 7 /\ EveryCycleWaits /\ Returned(i) /\ Stopped(i)
    /\ EventsOf(i, "validate") # {}
    /\ ActionOrder(i) = << "n2", "n1" >>

\* ---------------------------------------------------------------------
\* C23
\* ---------------------------------------------------------------------
\* id is the id of a node, but no node definition has it
UndefinedId(id) == id \notin {START, END} /\ FindNode(id) = 0
RunsNode(ev) == ev.op \in {"action", "validate"}

\* C23: once routing has led an invoke to an id without node definition,
\* that invoke runs no further action or validator; and every later invoke,
\* called while the tracker is on such an id, returns having run no action
\* and no validator and with the conversation state the engine had when it
\* was called.
C23_MissingNodeIsTerminal ==
  \A i \in Inst :
    /\ \A k \in DOMAIN trace[i] :
         (trace[i][k].op = "route" /\ UndefinedId(trace[i][k].to))
         => \A j \in DOMAIN trace[i] : j > k => ~RunsNode(trace[i][j])
    /\ (Returned(i) /\ UndefinedId(atCall[i].tracker.currentNodeId))
       => /\ \A k \in DOMAIN trace[i] : ~RunsNode(trace[i][k])
          /\ atReturn[i].gstate = atCall[i].gstate

EdgesFrom(id) == {k \in DOMAIN Graph.edges : Graph.edges[k].from = id}
LastEdgeFrom(id) == CHOOSE k \in EdgesFrom(id) : \A j \in EdgesFrom(id) : j <= k

\* C25: the compiled edge map has one target per registered source, and
\* every routing step leaving a source with a literal target goes to the
\* target registered last for that source.
C25_LastEdgeWins ==
  /\ DOMAIN Edges = {Graph.edges[k].from : k \in DOMAIN Graph.edges}
  /\ \A i \in Inst :
       \A k \in EventsOf(i, "route") :
         LET from == trace[i][k].node
         IN (EdgesFrom(from) # {}
               /\ Graph.edges[LastEdgeFrom(from)].to.kind = "id")
            => trace[i][k].to = Graph.edges[LastEdgeFrom(from)].to.id

\* in G5, n2 has the edges n2 -> n1 and then n2 -> END: the invoke that
\* validated n2 was routed to END
C25_Witness ==
  \E i \in Inst :
    /\ cfg.g = 5 /\ Cardinality(EdgesFrom("n2")) = 2
    /\ Graph.edges[LastEdgeFrom("n2")].to.id = END
    /\ Returned(i)
    /\ \E k \in EventsOf(i, "route") :
         trace[i][k].node = "n2" /\ trace[i][k].to = END
    /\ atReturn[i].tracker.isDone

\* ---------------------------------------------------------------------
\* C26
\* ---------------------------------------------------------------------
\* the snapshots held in a flow's array
SnapshotsIn(snaps) == {snaps[k] : k \in DOMAIN snaps}
\* the step is a pruneHistory call
PruneStep == oplog'.n = oplog.n + 1 /\ oplog'.last.op = "prune"

\* C26: pruneHistory(flowId, keepLast) leaves a flow that has at most
\* keepLast snapshots as it is; otherwise it leaves keepLast of the flow's
\* snapshots, unchanged, none of them with a lower version than a removed
\* one; the snapshots of every other flow and adapter stay as they are.
C26_PruneKeepsNewest ==
  [][PruneStep =>
       LET m == oplog'.last.mgr
           f == oplog'.last.flowId
           keepLast == oplog'.last.arg
           before == adapters[m][f]
           after == adapters'[m][f]
           removed == SnapshotsIn(before) \ SnapshotsIn(after)
       IN /\ Len(before) <= keepLast => after = before
          /\ Len(before) > keepLast
             => /\ Len(after) = keepLast
                /\ Cardinality(SnapshotsIn(after)) = keepLast
                /\ SnapshotsIn(after) \subseteq SnapshotsIn(before)
                /\ \A a \in SnapshotsIn(after), d \in removed :
                     d.version < a.version
          /\ \A n \in DOMAIN adapters :
               \A g \in DOMAIN adapters[n] :
                 (n # m \/ g # f) => adapters'[n][g] = adapters[n][g]
  ]_vars

\* three snapshots of f1 pruned to the two newest, f2 keeping its own
C26_Witness ==
  \E m \in DOMAIN adapters :
    /\ oplog.last.op = "prune" /\ oplog.last.mgr = m
    /\ oplog.last.flowId = "f1" /\ oplog.last.arg = 2
    /\ oplog.saves[m]["f1"] = << 1, 2, 3 >>
    /\ VersionsOf(m, "f1") = {2, 3}
    /\ Len(adapters[m]["f2"]) = 1

\* ---------------------------------------------------------------------
\* C29
\* ---------------------------------------------------------------------
StorageOps == {"save", "load", "history", "delete", "prune", "count", "exists"}

\* C29: a storage operation on a MongoStorageAdapter on which connect()
\* was never called does not fail for lack of a connection: the adapter
\* is connected afterwards and the operation has succeeded.
C29_MongoAutoConnects ==
  \A m \in MongoIds :
    (oplog.last.mgr = m /\ oplog.last.op \in StorageOps
       /\ ~counters[m].connectCalled)
    => /\ oplog.last.ret.outcome = "ok"
       /\ counters[m].isConnected

\* ---------------------------------------------------------------------
\* C27
\* ---------------------------------------------------------------------
\* the versions the adapter holds for flow f
StoredVersions(f) == {storage[f][k].version : k \in DOMAIN storage[f]}
\* the version restoreFromSnapshot(version) is to restore: the one given,
\* the highest one stored when none is given; 0 if there is no such snapshot
TargetVersion(f, version) ==
  IF ~HasStateManager \/ StoredVersions(f) = {} THEN 0
  ELSE IF version = NoVersion
       THEN CHOOSE v \in StoredVersions(f) : \A w \in StoredVersions(f) : w <= v
       ELSE IF version \in StoredVersions(f) THEN version ELSE 0

\* C27: restoreFromSnapshot(version) sets the in-memory state and tracker
\* to the state and the tracker that were saved as that version (as the
\* latest version when none is given) if this flow id has such a snapshot;
\* without storage adapter or without such a snapshot it leaves the
\* in-memory state and tracker as they are.
C27_RestoreSetsSavedValues ==
  [][\A i \in Inst : \A version \in 0..(Len(storage[flowOf[i]]) + 1) :
       RestoreFromSnapshot(i, version)
       => LET f == flowOf[i]
              target == TargetVersion(f, version)
          IN IF target = 0
             THEN /\ gstate'[i] = gstate[i]
                  /\ heap'[trk'[i]] = heap[trk[i]]
             ELSE \E j \in DOMAIN savedLog[f] :
                    /\ savedLog[f][j].version = target
                    /\ savedLog[f][j].state = gstate'[i]
                    /\ savedLog[f][j].tracker = heap'[trk'[i]]
  ]_vars

\* ---------------------------------------------------------------------
\* C28
\* ---------------------------------------------------------------------
\* the template with every {{identifier}} replaced by the value of the
\* state field of that name, by nothing if the state has no such field
RECURSIVE Substituted(_, _)
Substituted(text, state) ==
  IF text = <<>> THEN <<>>
  ELSE LET part == Head(text)
           first == IF ~part.braces THEN Pieces(part.text)
                    ELSE IF ~IsWord(part.text)
                         THEN << "{{", part.text, "}}" >>
                         ELSE IF part.text \in DOMAIN state
                              THEN Pieces(state[part.text].text)
                              ELSE <<>>
       IN first \o Substituted(Tail(text), state)

\* C28: the action built for a static {message} returns exactly one
\* message and nothing else, namely the template with every
\* {{identifier}} replaced by the current value of the state field named
\* identifier, and by the empty string when the state has no such field.
C28_PlaceholdersSubstituted ==
  (result.done /\ call.fn = "interpolate")
  => result.value = [messages |-> << Substituted(call.message, call.state) >>]

\* ---------------------------------------------------------------------
\* C30
\* ---------------------------------------------------------------------
\* C30: when an invoke that started from a tracker awaiting validation
\* returns after the validator rejected the input, the conversation state
\* is the state it started from plus the error message, if there is one:
\* the state update carried in the failed validation result is not merged.
C30_FailedValidationStateIgnored ==
  \A i \in Inst :
    (Returned(i) /\ PendingNode(i) # 0 /\ EventsOf(i, "throw") = {}
       /\ EventsOf(i, "validate") # {})
    => LET validationResult ==
             RunValidate(Nodes[PendingNode(i)], pre[i].gstate, event[i])
       IN ~validationResult.isValid
          => atReturn[i].gstate =
               IF validationResult.hasError
               THEN MergeState(cfg.mode, pre[i].gstate,
                               [messages |-> << validationResult.errorMessage >>])
               ELSE pre[i].gstate

\* ---------------------------------------------------------------------
\* C31
\* ---------------------------------------------------------------------
\* C31: the snapshots the shared adapter stores for one flow id carry
\* pairwise different version numbers, whatever calls were made one at a
\* time on the engines that share the adapter.
C31_StoredVersionsDistinct ==
  \A f \in FlowIds :
    \A j \in DOMAIN storage[f] :
      \A k \in DOMAIN storage[f] :
        j # k => storage[f][j].version # storage[f][k].version

\* ---------------------------------------------------------------------
\* C32
\* ---------------------------------------------------------------------
\* the last restoreFromSnapshot call, when it returned true for a version
\* older than the latest and the invoke on the same engine that has loaded
\* is the next call after it
RestoredOlder(i) ==
  /\ oplog # <<>>
  /\ LET r == oplog[Len(oplog)]
     IN /\ r.inst = i /\ r.ret /\ r.version # NoVersion
        /\ r.version < r.latest
        /\ ninv = r.ninv + 1
  /\ calls[i] >= 1
  /\ pc[i] # "load"

\* C32: the invoke that follows a successful restoreFromSnapshot(v) of a
\* version older than the latest starts executing from the state and the
\* tracker (node and phase flags) that were saved as version v.
C32_InvokeContinuesFromRestored ==
  \A i \in Inst :
    RestoredOlder(i)
    => LET r == oplog[Len(oplog)]
           saved == savedLog[flowOf[i]][r.index]
       IN /\ pre[i].gstate = saved.state
          /\ pre[i].tracker = saved.tracker

\* ---------------------------------------------------------------------
\* C33
\* ---------------------------------------------------------------------
\* C33: once the engine with a storage adapter and autoSave and the engine
\* without adapter have both been given the same events and the last
\* invoke has returned, the two hold the same conversation state and the
\* same tracker.
C33_PersistenceTransparent ==
  (Returned(1) /\ Len(call) = calls[1])
  => /\ atReturn[1].gstate = Twin.gstate
     /\ atReturn[1].tracker = Twin.tracker

\* ---------------------------------------------------------------------
\* C34
\* ---------------------------------------------------------------------
\* engine i has completed its flow (isDone) with a storage adapter and
\* autoSave, no saveSnapshot, restoreFromSnapshot or deleteSnapshots call
\* has been made, and engine j, built with the same flow id and adapter, is
\* running its first invoke
FirstInvokeAfterDone(i, j) ==
  /\ i # j
  /\ cfg.autoSave /\ HasStateManager
  /\ nadmin = 0
  /\ constructed[i] /\ constructed[j] /\ flowOf[j] = flowOf[i]
  /\ heap[trk[i]].isDone
  /\ calls[j] = 1 /\ pc[j] # "idle"

IsPhase(ev) == ev.op \in {"action", "validate"}

\* C34: the first invoke of a new engine built for a flow that has
\* completed runs no action and no validator and writes no snapshot; once
\* it has loaded, the engine holds the conversation state of the completed
\* flow, and when it returns its tracker reports isDone.
C34_NewEngineFindsFlowDone ==
  [][\A i \in Inst, j \in Inst :
       FirstInvokeAfterDone(i, j)
       => /\ SelectSeq(NewEvents(j), IsPhase) = <<>>
          /\ storage' = storage
          /\ pc[j] # "load" => gstate[j] = gstate[i]
          /\ gstate'[j] = gstate[i]
          /\ pc'[j] = "idle" => heap'[trk'[j]].isDone]_vars

\* the first invoke of the second engine has returned on a completed flow
C34_Witness ==
  /\ cfg.autoSave /\ HasStateManager /\ nadmin = 0
  /\ constructed[2] /\ calls[2] = 1 /\ Returned(2)
  /\ calls[1] >= 1 /\ atReturn[1].tracker.isDone
  /\ trace[2] # <<>>
  /\ EventsOf(2, "action") = {} /\ EventsOf(2, "validate") = {}
  /\ atReturn[2].tracker.isDone
  /\ atReturn[2].gstate = atReturn[1].gstate
  /\ Len(atReturn[2].gstate.messages) >= 2

\* ---------------------------------------------------------------------
\* C35
\* ---------------------------------------------------------------------
\* C35: when an invoke has returned and the tracker's current node is the
\* end marker, the tracker's isDone flag is true, whatever the graph.
C35_AtEndMeansDone ==
  \A i \in Inst :
    (Returned(i) /\ atReturn[i].tracker.currentNodeId = END)
    => atReturn[i].tracker.isDone

\* ---------------------------------------------------------------------
\* C36
\* ---------------------------------------------------------------------
\* the action of a node threw in this step of instance i
ActionThrew(i) ==
  /\ pc[i] = "head"
  /\ \E k \in DOMAIN NewEvents(i) :
       NewEvents(i)[k].op = "throw" /\ NewEvents(i)[k].to = "action"
\* the node whose action threw in this step
ThrowingNode(i) ==
  LET k == CHOOSE k \in DOMAIN NewEvents(i) : NewEvents(i)[k].op = "throw"
  IN NewEvents(i)[k].node
\* the invoke on instance i was called on a tracker left at node n with
\* its action not taken, which is how an action that throws leaves it,
\* and runs its first phase in this step
RetriesAction(i) ==
  /\ pc[i] = "head" /\ trace[i] = <<>>
  /\ calls[i] >= 2
  /\ FindNode(atCall[i].tracker.currentNodeId) # 0
  /\ ~atCall[i].tracker.isActionTaken

\* C36: a step in which a node's action throws leaves the tracker at that
\* node with isActionTaken false, merges nothing into the conversation
\* state and writes no snapshot; and the first phase of the next invoke is
\* that node's action again.
C36_ThrowingActionHasNoEffect ==
  [][\A i \in Inst :
       /\ ActionThrew(i)
          => /\ heap'[trk'[i]].currentNodeId = ThrowingNode(i)
             /\ ~heap'[trk'[i]].isActionTaken
             /\ gstate'[i] = gstate[i]
             /\ storage' = storage
       /\ RetriesAction(i)
          => /\ trace'[i] # <<>>
             /\ trace'[i][1].node = atCall[i].tracker.currentNodeId
             /\ \/ trace'[i][1].op = "action"
                \/ trace'[i][1].op = "throw" /\ trace'[i][1].to = "action"]_vars

\* ---------------------------------------------------------------------
\* C37
\* ---------------------------------------------------------------------
\* the node id compile was called on (the start node id when the state has
\* no current node) has no node definition
CalledOnMissingNode ==
  LET flow == FlowList[call.flow]
      id == IF call.given.currentNodeId # "" THEN call.given.currentNodeId
            ELSE FlowStartNodeId(flow)
  IN FlowNodeAt(flow, id) = 0

\* C37: a call of the legacy Flow's compile on a state whose current node
\* id has no node definition eventually returns, and what it returns has
\* done = true.
C37_MissingNodeEndsFlow ==
  CalledOnMissingNode ~> (result.done /\ result.value.done)

\* ---------------------------------------------------------------------
\* C38
\* ---------------------------------------------------------------------
\* C38: whatever calls have been made on both adapters, each (flowId,
\* version) pair being saved at most once, the last call returned the same
\* result from the MemoryStorageAdapter as from the connected
\* MongoStorageAdapter.
C38_AdaptersEquivalent == oplog.last.memory = oplog.last.mongo

\* ---------------------------------------------------------------------
\* C39
\* ---------------------------------------------------------------------
\* the phase is the action of a node that is not a noUserInput node
WaitsForInput(ev) ==
  /\ ev.op = "action"
  /\ FindNode(ev.node) # 0
  /\ ~Nodes[FindNode(ev.node)].noUserInput

====
